---- MODULE Spec2Model ----
(***************************************************************************)
(* Verification model of the gcloads negotiation core:                     *)
(*   app/logic/parser.py      recipient / identity resolution              *)
(*   app/logic/negotiator.py  price floor, decision engine, guardrails,    *)
(*                            reply orchestrator                           *)
(*   inbound_listener.py      routing, storage and the mailbox poller      *)
(*                                                                         *)
(* Text is modelled by its parsed structure: an address is the triple the  *)
(* routing regular expression captures, a token is a sequence of           *)
(* characters, a Subject is the pair (bracketed GCD payload, load          *)
(* reference), a body is the list of numeric mentions it contains.         *)
(* Money is counted in cents so that floor * 1.10 and floor * 1.08 stay    *)
(* exact.                                                                  *)
(***************************************************************************)
EXTENDS Integers, Sequences, FiniteSets, TLC

VARIABLES
    mode,       \* EMAIL_PLUS_LOCAL_MODE as configured
    pmsg,       \* parser harness: the message handed to the parser
    prouting,   \* parser harness: result of extract_routing_from_message
    pnegid,     \* parser harness: result of extract_negotiation_id_from_message
    pphase,     \* parser harness: "input" | "routed" | "resolved" | "off"
    dcase,      \* decision harness: price, driver settings, distance, suggestion
    dbase,      \* decision harness: result of process_negotiation_logic
    dguard,     \* decision harness: result of _enforce_decision_guardrails
    dreply,     \* decision harness: completion outcome, payload and email text
    dprice,     \* price harness: broker text, load reference, detected price, phase
    dphase,     \* decision harness: "input" | "decided" | "guarded" | "composed" | "off"
    drivers,        \* table drivers: id -> settings row (read-only to this core)
    negotiations,   \* table negotiations, committed state: id -> row
    messages,       \* table messages, committed state, in insertion order
    mailbox,        \* IMAP mailbox: uid -> message
    seen,           \* uids carrying the \Seen flag
    outbox,         \* emails handed to SMTP, in order
    pc,             \* position of listen_for_replies
    queue,          \* uids of the current UNSEEN search still to be visited
    cur,            \* uid being processed (0: none)
    sess,           \* the open database session: resolved route and uncommitted changes
    result,         \* last value returned by handle_broker_reply
    faults,         \* crashes and raised failures so far
    done,           \* history: uids whose _route_and_store reached its commit or verdict
    redo,           \* history: the current run re-processes a uid that is in done
    runs,           \* history: uid -> number of handle_broker_reply runs
    commits,        \* history: database commits made for the current uid
    lastWrite,      \* history: last price written to current_offer / pending_review_price
    lsn,            \* listener harness: control state of listen_for_replies
    osub,           \* subject harness: outbound subject, negotiation id, Subject sent, id parsed
    ing,            \* ingest harness: negotiation rows and the scout ingest requests
    led,            \* ledger harness: fee_ledger, referral_earnings, referral windows, calls
    man,            \* manual-mode harness: status row, poller run, driver request
    apr,            \* approve-draft harness: pending draft, requests in flight, outbox
    pol             \* poll harness: UNSEEN search, fetch, routing that may raise, sleep

parserVars == <<mode, pmsg, prouting, pnegid, pphase>>

decisionVars == <<dcase, dbase, dguard, dreply, dprice, dphase>>

dbVars == <<drivers, negotiations, messages>>

pollerVars == <<mailbox, seen, outbox, pc, queue, cur, sess, result, faults>>

historyVars == <<done, redo, runs, commits, lastWrite>>

systemVars == <<drivers, negotiations, messages, mailbox, seen, outbox, pc, queue, cur, sess,
                result, faults, done, redo, runs, commits, lastWrite, lsn, osub, ing, led, man, apr, pol>>

vars == <<mode, pmsg, prouting, pnegid, pphase, dcase, dbase, dguard, dreply, dprice,
          dphase,
          drivers, negotiations, messages, mailbox, seen, outbox, pc, queue, cur, sess,
          result, faults, done, redo, runs, commits, lastWrite, lsn, osub, ing, led, man, apr, pol>>

(***************************************************************************)
(* Bounds                                                                  *)
(***************************************************************************)
\* number of grid points of the suggested-price and floor grids
PriceSteps == 4

\* messages in the mailbox
MaxMail == 2

\* crashes, failed fetches and raised failures in one behaviour
MaxFaults == 1

(***************************************************************************)
(* Characters and strings                                                  *)
(***************************************************************************)
Digits == {"0", "1", "2", "3", "4", "5", "6", "7", "8", "9"}

LowerLetters == {"a", "b", "c", "d", "e", "h", "i", "j", "l", "n", "o", "p", "s", "t"}

\* str.lower() on the characters the model uses
LowerChar(c) ==
    CASE c = "D" -> "d"
      [] c = "J" -> "j"
      [] OTHER -> c

LowerSeq(s) == [i \in 1..Len(s) |-> LowerChar(s[i])]

\* str.lower() on a domain name
LowerDomain(d) ==
    CASE d = "GCDLoads.COM" -> "gcdloads.com"
      [] d = "Evil.ORG" -> "evil.org"
      [] OTHER -> d

\* str.isdigit(): non-empty and every character a digit
IsDigitStr(s) == Len(s) > 0 /\ \A i \in 1..Len(s) : s[i] \in Digits

DigitVal(c) ==
    CASE c = "0" -> 0 [] c = "1" -> 1 [] c = "2" -> 2 [] c = "3" -> 3
      [] c = "4" -> 4 [] c = "5" -> 5 [] c = "6" -> 6 [] c = "7" -> 7
      [] c = "8" -> 8 [] c = "9" -> 9

\* int(str) of a digit string (leading zeros are dropped by the value)
RECURSIVE StrToInt(_)
StrToInt(s) ==
    IF Len(s) = 0 THEN 0
    ELSE 10 * StrToInt(SubSeq(s, 1, Len(s) - 1)) + DigitVal(s[Len(s)])

(***************************************************************************)
(* app/logic/parser.py                                                     *)
(***************************************************************************)
EmailDomain == "gcdloads.com"

DispatchLocal == <<"d", "i", "s", "p", "a", "t", "c", "h">>

HeaderOrder == <<"Delivered-To", "X-Original-To", "Envelope-To", "To", "Cc", "Reply-To">>

PlusLocalModes == {"dispatch_only", "dispatch_and_handles"}

\* LOCAL_PART_RE = ^[a-z0-9]{2,32}$ (IGNORECASE)
LocalPartReMatches(s) ==
    /\ Len(s) >= 2
    /\ Len(s) <= 32
    /\ \A i \in 1..Len(s) : LowerChar(s[i]) \in (LowerLetters \cup Digits)

IsAllowedLocalPart(local_part, m) ==
    LET candidate == LowerSeq(local_part) IN
    IF candidate = DispatchLocal THEN TRUE
    ELSE IF m = "dispatch_only" THEN FALSE
    ELSE LocalPartReMatches(candidate)

NoPlus == [ok |-> FALSE, local_part |-> <<>>, token |-> <<>>]

\* An address is [tagged, local, token, domain, lead, tail]: tagged says
\* whether ROUTING_ADDRESS_RE finds local+token@domain in it, and local, token
\* and domain are the three groups it captures.  The pattern is applied with
\* search(), not fullmatch(): lead is the text of the address before the
\* captured local part and tail the text after the captured domain, and the
\* function looks at neither.
ExtractPlusTokenFromAddress(address, email_domain, m) ==
    IF ~address.tagged THEN NoPlus
    ELSE IF LowerDomain(address.domain) # LowerDomain(email_domain) THEN NoPlus
    ELSE IF Len(address.local) = 0 \/ Len(address.token) = 0 THEN NoPlus
    ELSE IF ~IsAllowedLocalPart(LowerSeq(address.local), m) THEN NoPlus
    ELSE [ok |-> TRUE, local_part |-> LowerSeq(address.local), token |-> address.token]

\* a header value is the list of addresses getaddresses() splits it into
RECURSIVE ExtractRoutingData(_, _, _)
ExtractRoutingData(addresses, email_domain, m) ==
    IF Len(addresses) = 0 THEN NoPlus
    ELSE LET parsed == ExtractPlusTokenFromAddress(Head(addresses), email_domain, m) IN
         IF parsed.ok THEN parsed
         ELSE ExtractRoutingData(Tail(addresses), email_domain, m)

NoRoute == [ok |-> FALSE, driver_handle |-> <<>>, load_ref |-> <<>>, matched_header |-> "none"]

RECURSIVE RoutingFromHeaders(_, _, _, _)
RoutingFromHeaders(msg, i, email_domain, m) ==
    IF i > Len(HeaderOrder) THEN NoRoute
    ELSE LET parsed == ExtractRoutingData(msg.hdrs[HeaderOrder[i]], email_domain, m) IN
         IF parsed.ok
         THEN [ok |-> TRUE, driver_handle |-> parsed.local_part,
               load_ref |-> parsed.token, matched_header |-> HeaderOrder[i]]
         ELSE RoutingFromHeaders(msg, i + 1, email_domain, m)

\* variant: the last header of the order that holds a valid tag wins
ExtractRoutingFromMessageLastHeader(msg, email_domain, m) ==
    LET hits == {i \in 1..Len(HeaderOrder) :
                   ExtractRoutingData(msg.hdrs[HeaderOrder[i]], email_domain, m).ok}
    IN  IF hits = {} THEN NoRoute
        ELSE LET i == CHOOSE x \in hits : \A y \in hits : y <= x
                 parsed == ExtractRoutingData(msg.hdrs[HeaderOrder[i]], email_domain, m)
             IN  [ok |-> TRUE, driver_handle |-> parsed.local_part,
                  load_ref |-> parsed.token, matched_header |-> HeaderOrder[i]]

\* variant: only the first header that holds any address is examined
ExtractRoutingFromMessageShortCircuit(msg, email_domain, m) ==
    LET present == {i \in 1..Len(HeaderOrder) : Len(msg.hdrs[HeaderOrder[i]]) > 0}
    IN  IF present = {} THEN NoRoute
        ELSE LET i == CHOOSE x \in present : \A y \in present : x <= y
                 parsed == ExtractRoutingData(msg.hdrs[HeaderOrder[i]], email_domain, m)
             IN  IF parsed.ok
                 THEN [ok |-> TRUE, driver_handle |-> parsed.local_part,
                       load_ref |-> parsed.token, matched_header |-> HeaderOrder[i]]
                 ELSE NoRoute

ExtractRoutingFromMessage(msg, email_domain, m) == RoutingFromHeaders(msg, 1, email_domain, m)

NoNegotiationId == [ok |-> FALSE, negotiation_id |-> 0, layer |-> "none"]

\* SUBJECT_NEGOTIATION_TOKEN_RE = \[\s*GCD\s*:\s*(\d+)\s*\]: matches only a
\* bracket whose payload is all digits; msg.subject.gcd is the payload of the
\* bracketed GCD token in the Subject (<<>> when there is none).
SubjectTokenMatches(subject) == IsDigitStr(subject.gcd)

\* variant: the Subject token is consulted before the tagged address
ExtractNegotiationIdSubjectFirst(msg, email_domain, m) ==
    LET plus_route == ExtractRoutingFromMessage(msg, email_domain, m)
        plus_token == plus_route.load_ref
    IN  IF SubjectTokenMatches(msg.subject)
        THEN [ok |-> TRUE, negotiation_id |-> StrToInt(msg.subject.gcd), layer |-> "subject_token"]
        ELSE IF plus_route.ok /\ IsDigitStr(plus_token)
        THEN [ok |-> TRUE, negotiation_id |-> StrToInt(plus_token), layer |-> "plus_tag"]
        ELSE IF IsDigitStr(msg.xheader)
        THEN [ok |-> TRUE, negotiation_id |-> StrToInt(msg.xheader), layer |-> "x_header"]
        ELSE NoNegotiationId

\* variant: the transport header is consulted before the Subject token
ExtractNegotiationIdXHeaderFirst(msg, email_domain, m) ==
    LET plus_route == ExtractRoutingFromMessage(msg, email_domain, m)
        plus_token == plus_route.load_ref
    IN  IF plus_route.ok /\ IsDigitStr(plus_token)
        THEN [ok |-> TRUE, negotiation_id |-> StrToInt(plus_token), layer |-> "plus_tag"]
        ELSE IF IsDigitStr(msg.xheader)
        THEN [ok |-> TRUE, negotiation_id |-> StrToInt(msg.xheader), layer |-> "x_header"]
        ELSE IF SubjectTokenMatches(msg.subject)
        THEN [ok |-> TRUE, negotiation_id |-> StrToInt(msg.subject.gcd), layer |-> "subject_token"]
        ELSE NoNegotiationId

ExtractNegotiationIdFromMessage(msg, email_domain, m) ==
    LET plus_route == ExtractRoutingFromMessage(msg, email_domain, m)
        plus_token == plus_route.load_ref
    IN  IF plus_route.ok /\ IsDigitStr(plus_token)
        THEN [ok |-> TRUE, negotiation_id |-> StrToInt(plus_token), layer |-> "plus_tag"]
        ELSE IF SubjectTokenMatches(msg.subject)
        THEN [ok |-> TRUE, negotiation_id |-> StrToInt(msg.subject.gcd), layer |-> "subject_token"]
        ELSE IF IsDigitStr(msg.xheader)
        THEN [ok |-> TRUE, negotiation_id |-> StrToInt(msg.xheader), layer |-> "x_header"]
        ELSE NoNegotiationId

(***************************************************************************)
(* Parser harness: messages drawn from a bounded set, the two extraction   *)
(* functions applied to them.                                              *)
(***************************************************************************)
HandleLocal == <<"j", "o", "e">>

PlainAddress ==
    [tagged |-> FALSE, local |-> <<>>, token |-> <<>>, domain |-> "broker.com", lead |-> "",
     tail |-> ""]

\* x!dispatch+4@gcdloads.com, dispatch+4@gcdloads.com_evil.org and
\* j+4@gcdloads.com: a character outside [a-z0-9._-] ends what the pattern
\* captures, and a local part of one character
ParserAddresses ==
    {PlainAddress} \cup
    {[tagged |-> TRUE, local |-> DispatchLocal, token |-> <<"4">>, domain |-> "gcdloads.com",
      lead |-> "x!", tail |-> ""],
     [tagged |-> TRUE, local |-> DispatchLocal, token |-> <<"4">>, domain |-> "gcdloads.com",
      lead |-> "", tail |-> "_evil.org"],
     [tagged |-> TRUE, local |-> <<"j">>, token |-> <<"4">>, domain |-> "gcdloads.com",
      lead |-> "", tail |-> ""]} \cup
    {[tagged |-> TRUE, local |-> l, token |-> t, domain |-> d, lead |-> "", tail |-> ""] :
        l \in {DispatchLocal, <<"J", "o", "e">>, <<"j", ".", "o">>},
        t \in {<<"4">>, <<"0", "7">>, <<"a", "4">>},
        d \in {"gcdloads.com", "GCDLoads.COM", "evil.org"}}

HeaderIdx == 1..Len(HeaderOrder)

\* headers holding at most two addresses in all, at positions h1 <= h2
HeadersWith(h1, a1, h2, a2) ==
    [h \in {HeaderOrder[i] : i \in HeaderIdx} |->
        (IF h = HeaderOrder[h1] THEN a1 ELSE <<>>) \o (IF h = HeaderOrder[h2] THEN a2 ELSE <<>>)]

OptAddress == {<<>>} \cup {<<a>> : a \in ParserAddresses}

ParserSubjects == {[gcd |-> g, load_ref |-> <<>>] : g \in {<<>>, <<"5">>, <<"a", "5">>}}

ParserXHeaders == {<<>>, <<"6">>, <<"x">>}

NoBody == [mentions |-> {}]

ParserMessages ==
    {[hdrs |-> HeadersWith(h1, a1, h2, a2), subject |-> s, xheader |-> x,
      sender |-> "broker@broker.com", body |-> NoBody, pdf |-> FALSE] :
        h1 \in {1, 4}, h2 \in {4, 5, 6}, a1 \in OptAddress, a2 \in OptAddress,
        s \in ParserSubjects, x \in ParserXHeaders}

(***************************************************************************)
(* app/logic/negotiator.py: floor, decision engine, guardrails.            *)
(* Money is in cents; ratios are compared by cross-multiplication, which   *)
(* agrees with the float comparison for these magnitudes.                  *)
(***************************************************************************)
Max(a, b) == IF a >= b THEN a ELSE b

\* Python round(n / d) for d > 0: to the nearest integer, ties to even
RoundHalfEven(n, d) ==
    LET q == n \div d
        r == n % d
    IN  IF 2 * r < d THEN q
        ELSE IF 2 * r > d THEN q + 1
        ELSE IF q % 2 = 0 THEN q ELSE q + 1

\* round(value / 50) * 50 for a value in cents (50 dollars = 5000 cents)
RoundTo50(value) == RoundHalfEven(value, 5000) * 5000

\* variant: floor * 1.08 without the rounding to 50
CounterTargetFromFloorUnrounded(absolute_floor) == (absolute_floor * 108) \div 100

\* round(absolute_floor * 1.08 / 50) * 50
CounterTargetFromFloor(absolute_floor) == RoundHalfEven(absolute_floor * 108, 500000) * 5000

\* variant: without the default of a premium over the detected price
AbsoluteFloorNoDefault(distance_miles, settings, broker_price_detected) ==
    Max(settings.min_flat_rate, settings.min_cpm * distance_miles)

\* settings = [min_cpm (cents per mile), min_flat_rate (cents)]; a missing
\* or NULL setting reads as 0 ("or 0")
AbsoluteFloor(distance_miles, settings, broker_price_detected) ==
    LET cpm_floor == settings.min_cpm * distance_miles
        absolute_floor == Max(settings.min_flat_rate, cpm_floor)
    IN  IF absolute_floor <= 0 THEN (broker_price_detected * 110) \div 100
        ELSE absolute_floor

NoPrice == -1

\* str.upper() on the action texts the model uses
UpperAction(a) ==
    CASE a = "walk_away" -> "WALK_AWAY"
      [] a = "finalize" -> "FINALIZE"
      [] OTHER -> a

\* a suggestion is [present, action, price_kind, price, template, email_body]:
\*   action = "" stands for a missing or empty action, template likewise;
\*   price_kind "number": a number or a string that float() parses;
\*              "missing": None or text float() rejects;
\*              "nan": text that float() parses to NaN, on which round() raises
EnforceDecisionGuardrails(distance_miles, settings, broker_price_detected, decision) ==
    LET action0 == IF decision.present /\ decision.action # ""
                   THEN UpperAction(decision.action) ELSE "SEND_COUNTER"
        action == IF action0 \in {"SEND_COUNTER", "WALK_AWAY", "FINALIZE"}
                  THEN action0 ELSE "SEND_COUNTER"
        absolute_floor == AbsoluteFloor(distance_miles, settings, broker_price_detected)
        parsed_price == IF decision.present /\ decision.price_kind = "number"
                        THEN decision.price
                        ELSE CounterTargetFromFloor(absolute_floor)
        floor_bounded == Max(parsed_price, absolute_floor)
        rounded0 == RoundTo50(floor_bounded)
        rounded_price == IF rounded0 <= 0 THEN RoundTo50(absolute_floor) ELSE rounded0
        template0 == IF decision.present /\ decision.template # ""
                     THEN decision.template ELSE "standard_negotiation"
        template1 == IF template0 \in {"close_the_deal", "standard_negotiation", "polite_decline"}
                     THEN template0 ELSE "standard_negotiation"
        template == IF action = "FINALIZE" THEN "close_the_deal" ELSE template1
    IN  IF action = "WALK_AWAY"
        THEN [raised |-> FALSE, action |-> "WALK_AWAY", price |-> NoPrice,
              template |-> "polite_decline"]
        ELSE IF decision.present /\ decision.price_kind = "nan"
        THEN [raised |-> TRUE, action |-> "", price |-> NoPrice, template |-> ""]
        ELSE [raised |-> FALSE, action |-> "SEND_COUNTER", price |-> rounded_price,
              template |-> template]

\* variant: the accept zone closes at the broker's price, without max(price, floor)
ProcessNegotiationLogicNoMax(distance_miles, broker_price_detected, settings) ==
    LET absolute_floor == AbsoluteFloor(distance_miles, settings, broker_price_detected)
        green == absolute_floor > 0 /\ 100 * broker_price_detected >= 95 * absolute_floor
        yellow == absolute_floor > 0 /\ 100 * broker_price_detected >= 80 * absolute_floor
                    /\ 100 * broker_price_detected < 95 * absolute_floor
    IN  IF green
        THEN [action |-> "SEND_COUNTER", price |-> broker_price_detected,
              template |-> "close_the_deal", zone |-> "GREEN", closing |-> TRUE]
        ELSE IF yellow
        THEN [action |-> "SEND_COUNTER", price |-> CounterTargetFromFloor(absolute_floor),
              template |-> "standard_negotiation", zone |-> "YELLOW", closing |-> FALSE]
        ELSE [action |-> "WALK_AWAY", price |-> NoPrice,
              template |-> "polite_decline", zone |-> "RED", closing |-> FALSE]

\* a variant whose negotiate zone also moves the negotiation into the
\* closing stance
ProcessNegotiationLogicClosesYellow(distance_miles, broker_price_detected, settings) ==
    LET absolute_floor == AbsoluteFloor(distance_miles, settings, broker_price_detected)
        green == absolute_floor > 0 /\ 100 * broker_price_detected >= 95 * absolute_floor
        yellow == absolute_floor > 0 /\ 100 * broker_price_detected >= 80 * absolute_floor
                    /\ 100 * broker_price_detected < 95 * absolute_floor
    IN  IF green
        THEN [action |-> "SEND_COUNTER", price |-> Max(broker_price_detected, absolute_floor),
              template |-> "close_the_deal", zone |-> "GREEN", closing |-> TRUE]
        ELSE IF yellow
        THEN [action |-> "SEND_COUNTER", price |-> CounterTargetFromFloor(absolute_floor),
              template |-> "standard_negotiation", zone |-> "YELLOW", closing |-> TRUE]
        ELSE [action |-> "WALK_AWAY", price |-> NoPrice,
              template |-> "polite_decline", zone |-> "RED", closing |-> FALSE]

\* the decision and, in closing, whether negotiation.status is set to
\* CLOSING_STANCE; zone is the prefix of the log text
ProcessNegotiationLogic(distance_miles, broker_price_detected, settings) ==
    LET absolute_floor == AbsoluteFloor(distance_miles, settings, broker_price_detected)
        \* ratio = price / floor if floor > 0 else 0.0, compared times 100 * floor
        green == absolute_floor > 0 /\ 100 * broker_price_detected >= 95 * absolute_floor
        yellow == absolute_floor > 0 /\ 100 * broker_price_detected >= 80 * absolute_floor
                    /\ 100 * broker_price_detected < 95 * absolute_floor
    IN  IF green
        THEN [action |-> "SEND_COUNTER", price |-> Max(broker_price_detected, absolute_floor),
              template |-> "close_the_deal", zone |-> "GREEN", closing |-> TRUE]
        ELSE IF yellow
        THEN [action |-> "SEND_COUNTER", price |-> CounterTargetFromFloor(absolute_floor),
              template |-> "standard_negotiation", zone |-> "YELLOW", closing |-> FALSE]
        ELSE [action |-> "WALK_AWAY", price |-> NoPrice,
              template |-> "polite_decline", zone |-> "RED", closing |-> FALSE]

(***************************************************************************)
(* app/logic/negotiator.py: extract_price_from_text.  A body is the set of *)
(* numeric mentions the four patterns find in it: [form, n] with form      *)
(* "dollar" ($n), "k" (n tenths of a thousand, 3.2k is n = 32), "hundred"  *)
(* (n hundred), "verb" (at/for/do/offer/offering/rate n) or "bare" (a      *)
(* number none of the patterns captures).  Values are dollars; the result  *)
(* is in cents.                                                            *)
(***************************************************************************)
SetMax(S) == CHOOSE x \in S : \A y \in S : y <= x

MentionValue(m) ==
    CASE m.form = "dollar" -> m.n
      [] m.form = "k" -> m.n * 100
      [] m.form = "hundred" -> m.n * 100
      [] m.form = "verb" -> m.n
      [] OTHER -> 0

\* variant: the ignored values are not removed
ExtractPriceFromTextKeepsIgnored(text, ignored_values) ==
    LET candidates == {MentionValue(m) : m \in {x \in text.mentions : x.form # "bare"}}
        in_range == {v \in candidates : 300 <= v /\ v <= 20000}
    IN  IF in_range = {} THEN NoPrice ELSE 100 * SetMax(in_range)

ExtractPriceFromText(text, ignored_values) ==
    LET candidates == {MentionValue(m) : m \in {x \in text.mentions : x.form # "bare"}}
        in_range == {v \in candidates : 300 <= v /\ v <= 20000}
        kept == in_range \ ignored_values
    IN  IF kept = {} THEN NoPrice ELSE 100 * SetMax(kept)

IsDigitChar(c) == c \in Digits

IsAlnumChar(c) == c \in (LowerLetters \cup Digits)

\* the numeric part of the load reference, when it lies in the price range
IgnoredValues(load_ref) ==
    LET numeric_load_ref == SelectSeq(load_ref, IsDigitChar)
    IN  IF Len(numeric_load_ref) > 0 /\ 300 <= StrToInt(numeric_load_ref)
            /\ StrToInt(numeric_load_ref) <= 20000
        THEN {StrToInt(numeric_load_ref)}
        ELSE {}

(***************************************************************************)
(* Tables read by the routing core.  Loads and broker contacts are fixed;  *)
(* drivers and negotiations are variables.                                 *)
(***************************************************************************)
Loads == <<[ref_id |-> <<"a", "7">>], [ref_id |-> <<"2">>]>>

LoadIds == 1..Len(Loads)

DriverIds == {1, 2}

NegIds == {1, 2, 3}

\* carrier identifiers that have a broker_emails row
BrokerEmails == {"MC1"}

NoEmailBody == [source |-> "none", template |-> "", price |-> NoPrice]

EmptySubject == [gcd |-> <<>>, load_ref |-> <<>>]

EmptyStored ==
    [sender |-> "", subject |-> EmptySubject, handle |-> <<>>, load_ref |-> <<>>, text |-> NoBody]

\* a messages row; body is the stored text of an inbound message, or the
\* part of a system text that varies (subject and load reference of the
\* manual-review reason)
Row(negotiation_id, sender, tag, body, action, price) ==
    [negotiation_id |-> negotiation_id, sender |-> sender, tag |-> tag, body |-> body,
     action |-> action, price |-> price]

\* normalize_load_ref / _normalize_handle: lower-case, drop non-alphanumerics
NormalizeLoadRef(value) == SelectSeq(LowerSeq(value), IsAlnumChar)

NormalizeHandle(value) == SelectSeq(LowerSeq(value), IsAlnumChar)

SetMin(S) == CHOOSE x \in S : \A y \in S : x <= y

\* 0 stands for None
FindDriverByHandle(drvs, handle) ==
    LET candidate_handle == LowerSeq(handle)
        exact == {d \in DOMAIN drvs : drvs[d].display_name = candidate_handle}
        normal == {d \in DOMAIN drvs :
                     NormalizeHandle(drvs[d].display_name) = NormalizeHandle(candidate_handle)}
    IN  IF Len(candidate_handle) = 0 THEN 0
        ELSE IF exact # {} THEN SetMin(exact)
        ELSE IF normal # {} THEN SetMin(normal)
        ELSE 0

FindLoadByRef(load_ref) ==
    LET exact == {l \in LoadIds : Loads[l].ref_id = load_ref}
        normalized_ref == NormalizeLoadRef(load_ref)
        normal == {l \in LoadIds : NormalizeLoadRef(Loads[l].ref_id) = normalized_ref}
    IN  IF Len(load_ref) = 0 THEN 0
        ELSE IF exact # {} THEN SetMin(exact)
        ELSE IF Len(normalized_ref) = 0 THEN 0
        ELSE IF normal # {} THEN SetMax(normal)
        ELSE 0

\* extract_load_ref_from_subject: the token the Subject patterns capture
ExtractLoadRefFromSubject(subject) == subject.load_ref

(***************************************************************************)
(* inbound_listener.py: the routing cascade of _route_and_store            *)
(***************************************************************************)
\* variant: the one-candidate test of the Subject heuristic accepts any
\* non-empty candidate list and takes the newest
HeuristicPickNewest(cands) ==
    IF cands # {} THEN [kind |-> "resolved", negotiation_id |-> SetMax(cands)]
    ELSE [kind |-> "unresolved", negotiation_id |-> 0]

\* the verdict on the candidates of the Subject heuristic
HeuristicVerdict(cands) ==
    IF Cardinality(cands) = 1 THEN [kind |-> "resolved", negotiation_id |-> SetMax(cands)]
    ELSE IF Cardinality(cands) > 1 THEN [kind |-> "ambiguous", negotiation_id |-> 0]
    ELSE [kind |-> "unresolved", negotiation_id |-> 0]

\* layers 1-3: the id the message carries, when a negotiation has it
RouteById(negs, routing_negotiation) ==
    IF routing_negotiation.ok /\ routing_negotiation.negotiation_id \in DOMAIN negs
    THEN routing_negotiation.negotiation_id
    ELSE 0

\* layer 4: the newest negotiation of the tagged address's driver and load
RouteByPair(negs, routing, driver2, load2) ==
    IF /\ routing.ok /\ driver2 # 0 /\ load2 # 0
       /\ \E n \in DOMAIN negs : negs[n].driver_id = driver2 /\ negs[n].load_id = load2
    THEN SetMax({n \in DOMAIN negs : negs[n].driver_id = driver2 /\ negs[n].load_id = load2})
    ELSE 0

\* variant: without the filter on the load the Subject names
ActiveCandidatesAnyLoad(negs, fallback_subject_load_ref, load3) ==
    {n \in DOMAIN negs : negs[n].status # "RATE_CON_SIGNED"}

\* layer 5: the unsigned negotiations of the load the Subject names
ActiveCandidates(negs, fallback_subject_load_ref, load3) ==
    IF Len(fallback_subject_load_ref) > 0 /\ load3 # 0
    THEN {n \in DOMAIN negs : negs[n].load_id = load3 /\ negs[n].status # "RATE_CON_SIGNED"}
    ELSE {}

\* what _route_and_store goes on with, given what each layer found
RouteRecord(negs, drvs, routing, by_id, by_pair, fallback_subject_load_ref, load3, active_candidates) ==
    LET verdict == HeuristicVerdict(active_candidates)
    IN  IF by_id # 0
        THEN [kind |-> "resolved", negotiation_id |-> by_id, candidates |-> {},
              handle |-> drvs[negs[by_id].driver_id].display_name,
              load_ref |-> Loads[negs[by_id].load_id].ref_id]
        ELSE IF by_pair # 0
        THEN [kind |-> "resolved", negotiation_id |-> by_pair, candidates |-> {},
              handle |-> LowerSeq(routing.driver_handle), load_ref |-> routing.load_ref]
        ELSE IF verdict.kind = "resolved"
        THEN [kind |-> "resolved", negotiation_id |-> verdict.negotiation_id, candidates |-> {},
              handle |-> drvs[negs[verdict.negotiation_id].driver_id].display_name,
              load_ref |-> Loads[load3].ref_id]
        ELSE IF verdict.kind = "ambiguous"
        THEN [kind |-> "ambiguous", negotiation_id |-> 0, candidates |-> active_candidates,
              handle |-> <<>>, load_ref |-> fallback_subject_load_ref]
        ELSE [kind |-> "unresolved", negotiation_id |-> 0, candidates |-> {},
              handle |-> <<>>, load_ref |-> <<>>]

RouteBySubject(negs, drvs, routing, by_id, by_pair, fallback_subject_load_ref, load3) ==
    RouteRecord(negs, drvs, routing, by_id, by_pair, fallback_subject_load_ref, load3,
                IF by_id = 0 /\ by_pair = 0
                THEN ActiveCandidates(negs, fallback_subject_load_ref, load3)
                ELSE {})

RouteLayers(negs, drvs, routing, by_id, fallback_subject_load_ref) ==
    RouteBySubject(negs, drvs, routing, by_id,
                   IF by_id = 0
                   THEN RouteByPair(negs, routing,
                                    FindDriverByHandle(drvs, LowerSeq(routing.driver_handle)),
                                    FindLoadByRef(routing.load_ref))
                   ELSE 0,
                   fallback_subject_load_ref, FindLoadByRef(fallback_subject_load_ref))

\* the routing cascade of _route_and_store, layer by layer
ResolveRoute(msg, negs, drvs, m) ==
    RouteLayers(negs, drvs, ExtractRoutingFromMessage(msg, EmailDomain, m),
                RouteById(negs, ExtractNegotiationIdFromMessage(msg, EmailDomain, m)),
                ExtractLoadRefFromSubject(msg.subject))

\* the text stored for an inbound message
StoredBody(msg, handle, load_ref) ==
    [sender |-> msg.sender, subject |-> msg.subject, handle |-> handle, load_ref |-> load_ref,
     text |-> msg.body]

\* variant: the duplicate query filters on the sender tag the decision rows use
IsDuplicateWrongSender(msgs, negotiation_id, stored_body) ==
    \E i \in 1..Len(msgs) :
        /\ msgs[i].negotiation_id = negotiation_id
        /\ msgs[i].sender = "SYSTEM"
        /\ msgs[i].body = stored_body

\* the duplicate query of _route_and_store
IsDuplicate(msgs, negotiation_id, stored_body) ==
    \E i \in 1..Len(msgs) :
        /\ msgs[i].negotiation_id = negotiation_id
        /\ msgs[i].sender = "Broker"
        /\ msgs[i].body = stored_body

BlockedStatuses == {"Manual", "CLOSED", "CLOSED_PENDING_EMAIL", "RATE_CON_RECEIVED", "RATE_CON_SIGNED"}

(***************************************************************************)
(* Decision harness: prices, driver settings and suggestions drawn from    *)
(* bounded sets, the decision engine and the guardrails applied to them.   *)
(***************************************************************************)
\* the offers of MATRIX_CASES and the ends of the detectable range
HarnessPrices ==
    {100 * d : d \in {300, 1000, 1400, 1590, 1610, 1800, 1890, 1910, 2100, 2400, 20000}}

\* 0 stands for an unset minimum
HarnessFlatRates == {0, 200000} \cup {100 * (320 + 585 * k) : k \in 0..(PriceSteps - 1)}

HarnessSettings == {[min_cpm |-> c, min_flat_rate |-> f] : c \in {0, 250}, f \in HarnessFlatRates}

HarnessDistances == {0, 800}

HarnessSuggestedPrices == {-5000, 0} \cup {100 * (990 + 515 * k) : k \in 0..(PriceSteps - 1)}

NoSuggestion ==
    [present |-> FALSE, action |-> "", price_kind |-> "missing", price |-> 0, template |-> "",
     email_body |-> ""]

HarnessSuggestions ==
    {NoSuggestion} \cup
    {[present |-> TRUE, action |-> a, price_kind |-> "number", price |-> p, template |-> t,
      email_body |-> ""] :
        a \in {"", "SEND_COUNTER", "walk_away", "FINALIZE", "ACCEPT"},
        p \in HarnessSuggestedPrices,
        t \in {"", "close_the_deal", "polite_decline", "urgent"}} \cup
    {[present |-> TRUE, action |-> a, price_kind |-> k, price |-> 0, template |-> "",
      email_body |-> ""] :
        a \in {"SEND_COUNTER", "WALK_AWAY", "FINALIZE"}, k \in {"missing", "nan"}}

NoDecision == [action |-> "", price |-> NoPrice, template |-> "", zone |-> "", closing |-> FALSE]

NoGuard == [raised |-> FALSE, action |-> "", price |-> NoPrice, template |-> ""]

NoPriceCase == [text |-> NoBody, load_ref |-> <<>>, detected |-> NoPrice, phase |-> "off"]

\* listen_for_replies outside the listener harness: the loop is not observed
ListenerOff ==
    [pc |-> "off", mail |-> "none", uids |-> 0, faults |-> 0, wait |-> "start",
     stale |-> FALSE, raised |-> "", at |-> ""]

\* _append_subject_token outside the subject harness: nothing is sent
SubjectOff ==
    [subject |-> <<>>, negotiation_id |-> 0, sent |-> <<>>, twice |-> <<>>,
     parsed |-> NoNegotiationId, phase |-> "off"]

\* the negotiations table outside the ingest harness: no row, no request
IngestOff == [rows |-> <<>>, reqs |-> <<>>]

\* process_load_fees outside the ledger harness: empty tables, no call
LedgerOff == [fee_ledger |-> <<>>, referral_earnings |-> <<>>, windows |-> {}, calls |-> <<>>]

\* set_negotiation_manual_mode outside the manual-mode harness
ManualOff ==
    [status |-> "Sent", auto_negotiate |-> FALSE, pc |-> "off", zone |-> "", left |-> 0,
     manual |-> FALSE, late_runs |-> 0, current_offer |-> 0]

\* main.py lines 1120-1188: the approve-draft endpoint is idle (no draft, no
\* request has been made)
ApproveOff ==
    [pending |-> [action |-> "", price |-> -1], pc |-> <<>>, read |-> <<>>,
     result |-> <<>>, outbox |-> <<>>, current_offer |-> -1, approved_rows |-> 0]

\* listen_for_replies outside the poll harness: no mailbox, no cycle
PollOff ==
    [box |-> <<>>, seen |-> {}, stored |-> {}, queue |-> <<>>, cur |-> 0, pc |-> "off"]

NoReply == [outcome |-> "", payload |-> NoSuggestion, email |-> NoEmailBody]

NoCase == [price |-> 0, settings |-> [min_cpm |-> 0, min_flat_rate |-> 0],
           distance_miles |-> 0, suggestion |-> NoSuggestion]

ParserOff ==
    /\ pmsg = [hdrs |-> HeadersWith(1, <<>>, 1, <<>>), subject |-> [gcd |-> <<>>, load_ref |-> <<>>],
               xheader |-> <<>>, sender |-> "", body |-> NoBody, pdf |-> FALSE]
    /\ prouting = NoRoute
    /\ pnegid = NoNegotiationId
    /\ pphase = "off"

DecisionOff ==
    /\ dcase = NoCase
    /\ dbase = NoDecision
    /\ dguard = NoGuard
    /\ dreply = NoReply
    /\ dprice = NoPriceCase
    /\ dphase = "off"

(***************************************************************************)
(* The mailbox poller and the reply orchestrator                           *)
(*   listen_for_replies, _route_and_store   (inbound_listener.py)          *)
(*   handle_broker_reply                    (app/logic/negotiator.py)      *)
(* One action per stretch of code between two database commits or          *)
(* external calls, so that a crash can fall between any two of them.       *)
(***************************************************************************)
NoSess ==
    [negotiation_id |-> 0, handle |-> <<>>, load_ref |-> <<>>, closing |-> FALSE,
     decision |-> NoDecision, email_body |-> NoEmailBody, floor |-> 0, detected |-> NoPrice]

NoWrite == [field |-> "none", value |-> NoPrice, floor |-> 0, detected |-> NoPrice]

\* Driver.auto_negotiate defaults to True, review_before_send to False; the
\* minimums are NULL.  notify_on_decline is read with getattr(..., False).
DefaultDriver(name) ==
    [display_name |-> name, auto_negotiate |-> TRUE, review_before_send |-> FALSE,
     notify_on_decline |-> FALSE, min_cpm |-> 0, min_flat_rate |-> 0]

\* auto_negotiate, review_before_send, notify_on_decline of driver 1: the
\* defaults, each flag changed alone, and review together with notify
DriverFlags ==
    {<<TRUE, FALSE, FALSE>>, <<FALSE, FALSE, FALSE>>, <<TRUE, TRUE, FALSE>>,
     <<TRUE, FALSE, TRUE>>, <<TRUE, TRUE, TRUE>>}

InitialDrivers ==
    {[d \in DriverIds |->
        IF d = 1
        THEN [DefaultDriver(<<"j", "o", "e">>) EXCEPT
                 !.auto_negotiate = f[1], !.review_before_send = f[2],
                 !.notify_on_decline = f[3], !.min_flat_rate = 200000]
        ELSE DefaultDriver(<<"a", "n", "n">>)] :
     f \in DriverFlags}

NewNegotiation(load_id, driver_id, mc, status) ==
    [load_id |-> load_id, driver_id |-> driver_id, broker_mc_number |-> mc, status |-> status,
     current_offer |-> NoPrice, rate_con_path |-> "",
     pending_review_subject |-> <<>>, pending_review_body |-> NoEmailBody,
     pending_review_action |-> "", pending_review_price |-> NoPrice]

\* the statuses of negotiations 1 and 2, which share load 1
InitialStatuses ==
    {<<"Sent", "Sent">>, <<"CLOSED", "Sent">>, <<"Manual", "Sent">>,
     <<"Sent", "RATE_CON_SIGNED">>}

InitialNegotiations ==
    {[n \in NegIds |->
        CASE n = 1 -> NewNegotiation(1, 1, "MC1", s[1])
          [] n = 2 -> NewNegotiation(1, 2, "MC1", s[2])
          [] OTHER -> NewNegotiation(2, 1, "MC2", "Sent")] :
     s \in InitialStatuses}

Email(to_address, gcd, load_ref, xheader, mentions, pdf) ==
    [hdrs |-> HeadersWith(4, <<to_address>>, 4, <<>>),
     subject |-> [gcd |-> gcd, load_ref |-> load_ref], xheader |-> xheader,
     sender |-> "broker@broker.com", body |-> [mentions |-> mentions], pdf |-> pdf]

Tagged(local, token) ==
    [tagged |-> TRUE, local |-> local, token |-> token, domain |-> EmailDomain, lead |-> "",
     tail |-> ""]

SystemEmails ==
    << \* only "Load A-7" in the Subject, "for 1000"
       Email(PlainAddress, <<>>, <<"a", "-", "7">>, <<>>, {[form |-> "verb", n |-> 1000]}, FALSE),
       \* reply to dispatch+1@..., "$1,900"
       Email(Tagged(DispatchLocal, <<"1">>), <<"1">>, <<"a", "7">>, <<>>,
             {[form |-> "dollar", n |-> 1900]}, FALSE),
       \* Subject token [GCD:2], "1.8k"
       Email(PlainAddress, <<"2">>, <<"a", "7">>, <<>>, {[form |-> "k", n |-> 18]}, FALSE),
       \* reply to joe+a7@..., "do 1800"
       Email(Tagged(HandleLocal, <<"a", "7">>), <<>>, <<>>, <<>>,
             {[form |-> "verb", n |-> 1800]}, FALSE),
       \* transport header 1, a PDF attached, no price in the text
       Email(PlainAddress, <<>>, <<>>, <<"1">>, {[form |-> "bare", n |-> 1234]}, TRUE),
       \* nothing to route by
       Email(PlainAddress, <<>>, <<>>, <<>>, {}, FALSE),
       \* only "Load 2" in the Subject, "$2,400"
       Email(PlainAddress, <<>>, <<"2">>, <<>>, {[form |-> "dollar", n |-> 2400]}, FALSE) >>

\* the mailboxes of MaxMail messages, uid by uid in the order of arrival;
\* arrivals are taken in the order of the list above
Mailboxes ==
    {[u \in 1..MaxMail |-> SystemEmails[pick[u]]] :
        pick \in {f \in [1..MaxMail -> DOMAIN SystemEmails] :
                    \A u, v \in 1..MaxMail : u < v => f[u] <= f[v]}}

\* how the call of resolve_ai_decision ends: OPENAI_API_KEY is empty (the
\* call is not made), the openai package is missing, the completion call
\* raises or times out, the response has no content, the content holds no
\* JSON object, or it holds one
AiOutcomes == {"not_configured", "no_client", "call_raised", "no_content", "not_json", "object"}

\* variant: text that holds no JSON object is passed on as a payload
ResolveAiDecisionKeepsText(outcome, object) ==
    IF outcome \in {"object", "not_json"} THEN object ELSE NoSuggestion

\* resolve_ai_decision: None unless the content parses to a JSON object
ResolveAiDecision(outcome, object) ==
    IF outcome = "object" THEN object ELSE NoSuggestion

\* what handle_broker_reply gets from resolve_ai_decision; only email_body is
\* used
SystemSuggestions ==
    {ResolveAiDecision(outcome,
        [present |-> TRUE, action |-> "FINALIZE", price_kind |-> "number", price |-> 100,
         template |-> "close_the_deal", email_body |-> "text written by the assistant"]) :
     outcome \in AiOutcomes}

InitSystem ==
    /\ drivers \in InitialDrivers
    /\ negotiations \in InitialNegotiations
    /\ messages = <<>>
    /\ mailbox \in Mailboxes
    /\ seen = {}
    /\ outbox = <<>>
    /\ pc = "idle"
    /\ queue = <<>>
    /\ cur = 0
    /\ sess = NoSess
    /\ result = "none"
    /\ faults = 0
    /\ done = {}
    /\ redo = FALSE
    /\ runs = [u \in 1..MaxMail |-> 0]
    /\ commits = 0
    /\ lastWrite = NoWrite
    /\ lsn = ListenerOff
    /\ osub = SubjectOff
    /\ ing = IngestOff
    /\ led = LedgerOff
    /\ man = ManualOff
    /\ apr = ApproveOff
    /\ pol = PollOff

SystemOff ==
    /\ drivers = [d \in DriverIds |-> DefaultDriver(<<>>)]
    /\ negotiations = [n \in NegIds |-> NewNegotiation(1, 1, "MC1", "Draft")]
    /\ messages = <<>>
    /\ mailbox = <<>>
    /\ seen = {}
    /\ outbox = <<>>
    /\ pc = "off"
    /\ queue = <<>>
    /\ cur = 0
    /\ sess = NoSess
    /\ result = "none"
    /\ faults = 0
    /\ done = {}
    /\ redo = FALSE
    /\ runs = <<>>
    /\ commits = 0
    /\ lastWrite = NoWrite

Init ==
    /\ mode = "dispatch_and_handles"
    /\ ParserOff
    /\ DecisionOff
    /\ InitSystem

RECURSIVE AscendingSeq(_)
AscendingSeq(S) == IF S = {} THEN <<>> ELSE <<SetMin(S)>> \o AscendingSeq(S \ {SetMin(S)})

RECURSIVE DescendingSeq(_)
DescendingSeq(S) == IF S = {} THEN <<>> ELSE <<SetMax(S)>> \o DescendingSeq(S \ {SetMax(S)})

Harnesses ==
    <<mode, pmsg, prouting, pnegid, pphase, dcase, dbase, dguard, dreply, dprice, dphase, lsn, osub, ing, led, man, apr, pol>>

\* mail.search(None, "UNSEEN")
Search ==
    /\ pc = "idle"
    /\ queue' = AscendingSeq({u \in DOMAIN mailbox : u \notin seen})
    /\ pc' = "loop"
    /\ UNCHANGED <<drivers, negotiations, messages, mailbox, seen, outbox, cur, sess, result,
                   faults, done, redo, runs, commits, lastWrite>>
    /\ UNCHANGED Harnesses

\* the UNSEEN list is exhausted: time.sleep(poll_seconds)
EndCycle ==
    /\ pc = "loop"
    /\ queue = <<>>
    /\ pc' = "idle"
    /\ UNCHANGED <<drivers, negotiations, messages, mailbox, seen, outbox, queue, cur, sess,
                   result, faults, done, redo, runs, commits, lastWrite>>
    /\ UNCHANGED Harnesses

\* mail.fetch(uid, "(RFC822)") on a mailbox selected read-write.  RFC 3501
\* (6.4.5) has a FETCH of RFC822 set \Seen implicitly; whether the flag is
\* set is the server's doing, so both outcomes are possible.
Fetch ==
    /\ pc = "loop"
    /\ queue # <<>>
    /\ \E implicit_seen \in BOOLEAN :
        seen' = IF implicit_seen THEN seen \cup {Head(queue)} ELSE seen
    /\ cur' = Head(queue)
    /\ pc' = "fetched"
    /\ sess' = NoSess
    /\ redo' = (Head(queue) \in done)
    /\ commits' = 0
    /\ UNCHANGED <<drivers, negotiations, messages, mailbox, outbox, queue, result, faults,
                   done, runs, lastWrite>>
    /\ UNCHANGED Harnesses

\* fetch_status != "OK" or an empty payload: continue with the next uid
FetchFailed ==
    /\ pc = "loop"
    /\ queue # <<>>
    /\ faults < MaxFaults
    /\ queue' = Tail(queue)
    /\ faults' = faults + 1
    /\ UNCHANGED <<drivers, negotiations, messages, mailbox, seen, outbox, pc, cur, sess,
                   result, done, redo, runs, commits, lastWrite>>
    /\ UNCHANGED Harnesses

ManualReviewRows(cands, msg, fallback) ==
    [i \in 1..Len(cands) |->
        Row(cands[i], "System", "manual_review",
            [EmptyStored EXCEPT !.subject = msg.subject, !.load_ref = fallback], "", NoPrice)]

\* _route_and_store up to the point where the negotiation is known: the
\* routing cascade, _set_manual_review on an ambiguous route, and the
\* rate-confirmation branch of a CLOSED negotiation (each with its commit)
RouteOutcome(msg, route, n) ==
    CASE route.kind = "ambiguous" ->
           /\ negotiations' = [k \in NegIds |->
                 IF k \in route.candidates
                 THEN [negotiations[k] EXCEPT !.status = "MANUAL_REVIEW"]
                 ELSE negotiations[k]]
           /\ messages' = messages \o
                 ManualReviewRows(DescendingSeq(route.candidates), msg, route.load_ref)
           /\ commits' = commits + 1
           /\ done' = done \cup {cur}
           /\ pc' = "mark"
           /\ sess' = sess
      [] route.kind = "unresolved" ->
           /\ done' = done \cup {cur}
           /\ pc' = "mark"
           /\ UNCHANGED <<negotiations, messages, commits, sess>>
      [] OTHER ->
           /\ IF negotiations[n].status = "CLOSED" /\ msg.pdf
              THEN /\ negotiations' = [negotiations EXCEPT
                         ![n].status = "RATE_CON_RECEIVED",
                         ![n].rate_con_path = "saved"]
                   /\ messages' = Append(messages,
                         Row(n, "System", "rate_con_received", EmptyStored, "", NoPrice))
                   /\ commits' = commits + 1
              ELSE UNCHANGED <<negotiations, messages, commits>>
           /\ sess' = [NoSess EXCEPT !.negotiation_id = n, !.handle = route.handle,
                                     !.load_ref = route.load_ref]
           /\ pc' = "resolved"
           /\ done' = done

RouteStep(msg, route) == RouteOutcome(msg, route, route.negotiation_id)

RouteResolve ==
    /\ pc = "fetched"
    /\ RouteStep(mailbox[cur], ResolveRoute(mailbox[cur], negotiations, drivers, mode))
    /\ UNCHANGED <<drivers, mailbox, seen, outbox, queue, cur, result, faults, redo, runs,
                   lastWrite>>
    /\ UNCHANGED Harnesses

\* a database error inside _route_and_store propagates to the poll loop, is
\* logged by "except Exception", and the cycle ends
RouteFailed ==
    /\ pc = "fetched"
    /\ faults < MaxFaults
    /\ faults' = faults + 1
    /\ pc' = "idle"
    /\ queue' = <<>>
    /\ cur' = 0
    /\ sess' = NoSess
    /\ UNCHANGED <<drivers, negotiations, messages, mailbox, seen, outbox, result, done, redo,
                   runs, commits, lastWrite>>
    /\ UNCHANGED Harnesses

\* the duplicate test, the Broker row and its commit
StoreInbound ==
    /\ pc = "resolved"
    /\ LET n == sess.negotiation_id
           stored_body == StoredBody(mailbox[cur], sess.handle, sess.load_ref)
       IN  IF IsDuplicate(messages, n, stored_body)
           THEN /\ pc' = "mark"
                /\ UNCHANGED <<messages, commits>>
           ELSE /\ messages' = Append(messages, Row(n, "Broker", "inbound", stored_body, "", NoPrice))
                /\ commits' = commits + 1
                /\ pc' = "stored"
    /\ done' = done \cup {cur}
    /\ UNCHANGED <<drivers, negotiations, mailbox, seen, outbox, queue, cur, sess, result,
                   faults, redo, runs, lastWrite>>
    /\ UNCHANGED Harnesses

\* a variant of the gate that looks at the driver's flag only
AutoNegotiatesAnyStatus(n) == drivers[negotiations[n].driver_id].auto_negotiate

AutoNegotiates(n) ==
    /\ drivers[negotiations[n].driver_id].auto_negotiate
    /\ negotiations[n].status \notin BlockedStatuses

\* auto_negotiate is off or the status is blocked: return True
SkipPipeline ==
    /\ pc = "stored"
    /\ ~AutoNegotiates(sess.negotiation_id)
    /\ pc' = "mark"
    /\ UNCHANGED <<drivers, negotiations, messages, mailbox, seen, outbox, queue, cur, sess,
                   result, faults, done, redo, runs, commits, lastWrite>>
    /\ UNCHANGED Harnesses

\* variant: the review flag is not consulted
ReviewBeforeSendIgnored(driver_settings) == FALSE

\* bool(getattr(driver_settings, "review_before_send", False))
ReviewBeforeSend(driver_settings) == driver_settings.review_before_send

\* generate_negotiation_email, or the assistant's email_body when it is non-empty
EmailContent(ai_payload, decision) ==
    IF ai_payload.present /\ ai_payload.email_body # ""
    THEN [source |-> "assistant", template |-> "", price |-> NoPrice]
    ELSE [source |-> "template", template |-> decision.template, price |-> decision.price]

\* variant: a decline is sent whether or not the driver opted in
ShouldSendAlways(decision, driver_settings) == TRUE

\* should_send: a walk-away is answered only for a driver with notify_on_decline
ShouldSend(decision, driver_settings) ==
    decision.action # "WALK_AWAY" \/ driver_settings.notify_on_decline

\* the decision harness's record of lines 259-269
ComposeReply(outcome, ai_payload, decision) ==
    [outcome |-> outcome, payload |-> ai_payload, email |-> EmailContent(ai_payload, decision)]

\* handle_broker_reply from the decision on: the decision row, then the
\* branches by should_send, the broker's address and review_before_send
Reply(n, neg, driver_settings, load_ref, detected_price, decision, absolute_floor, status_after) ==
    LET decision_row == Row(n, "SYSTEM", decision.zone, EmptyStored, decision.action,
                            decision.price)
        should_send == ShouldSend(decision, driver_settings)
        broker_email == neg.broker_mc_number \in BrokerEmails
    IN  \E ai_payload \in SystemSuggestions :
        CASE ~should_send ->
               /\ negotiations' = [negotiations EXCEPT ![n].status = status_after]
               /\ messages' = Append(messages, decision_row)
               /\ commits' = commits + 1
               /\ result' = decision.action
               /\ pc' = "mark"
               /\ UNCHANGED <<sess, lastWrite>>
          [] should_send /\ ~broker_email ->
               /\ negotiations' = [negotiations EXCEPT ![n].status = status_after]
               /\ messages' = messages \o
                    <<decision_row,
                      Row(n, "SYSTEM", "broker_email_missing", EmptyStored, "", NoPrice)>>
               /\ commits' = commits + 1
               /\ result' = "WAITING_FOR_HUMAN"
               /\ pc' = "mark"
               /\ UNCHANGED <<sess, lastWrite>>
          [] should_send /\ broker_email /\ ReviewBeforeSend(driver_settings) ->
               /\ negotiations' = [negotiations EXCEPT
                    ![n].status = status_after,
                    ![n].pending_review_subject = load_ref,
                    ![n].pending_review_body = EmailContent(ai_payload, decision),
                    ![n].pending_review_action = decision.action,
                    ![n].pending_review_price = decision.price]
               /\ messages' = messages \o
                    <<decision_row,
                      Row(n, "SYSTEM", "draft_ready", EmptyStored, decision.action,
                          decision.price)>>
               /\ commits' = commits + 1
               /\ lastWrite' = [field |-> "pending_review_price",
                                value |-> decision.price, floor |-> absolute_floor,
                                detected |-> detected_price]
               /\ result' = "REVIEW_REQUIRED"
               /\ pc' = "mark"
               /\ UNCHANGED sess
          [] OTHER ->
               /\ sess' = [sess EXCEPT !.closing = decision.closing,
                                       !.decision = decision,
                                       !.email_body = EmailContent(ai_payload, decision),
                                       !.floor = absolute_floor,
                                       !.detected = detected_price]
               /\ pc' = "sending"
               /\ UNCHANGED <<negotiations, messages, commits, lastWrite, result>>

\* Negotiation has no distance_miles: getattr(..., 0)
Decision(n, neg, driver_settings, load_ref, detected_price, decision) ==
    Reply(n, neg, driver_settings, load_ref, detected_price, decision,
          AbsoluteFloor(0, driver_settings, detected_price),
          IF decision.closing THEN "CLOSING_STANCE" ELSE neg.status)

\* variant: a reply without a price leaves a system row behind
OrchestrateLoggingNoPrice(n, neg, driver_settings, load_ref, detected_price) ==
    IF detected_price = NoPrice
    THEN /\ result' = "WAITING_FOR_HUMAN"
         /\ pc' = "mark"
         /\ messages' = Append(messages, Row(n, "SYSTEM", "no_price", EmptyStored, "", NoPrice))
         /\ commits' = commits + 1
         /\ UNCHANGED <<negotiations, sess, lastWrite>>
    ELSE Decision(n, neg, driver_settings, load_ref, detected_price,
                  ProcessNegotiationLogic(0, detected_price, driver_settings))

\* handle_broker_reply once the price is extracted
Orchestrate(n, neg, driver_settings, load_ref, detected_price) ==
    IF detected_price = NoPrice
    THEN /\ result' = "WAITING_FOR_HUMAN"
         /\ pc' = "mark"
         /\ UNCHANGED <<negotiations, messages, sess, commits, lastWrite>>
    ELSE Decision(n, neg, driver_settings, load_ref, detected_price,
                  ProcessNegotiationLogic(0, detected_price, driver_settings))

DetectPrice(n, neg, driver_settings, load_ref) ==
    Orchestrate(n, neg, driver_settings, load_ref,
                ExtractPriceFromText(mailbox[cur].body, IgnoredValues(load_ref)))

\* handle_broker_reply from its start to the first of: a return, or the call
\* of send_outbound_email
HandleBrokerReply ==
    /\ pc = "stored"
    /\ AutoNegotiates(sess.negotiation_id)
    /\ runs' = [runs EXCEPT ![cur] = @ + 1]
    /\ DetectPrice(sess.negotiation_id, negotiations[sess.negotiation_id],
                   drivers[negotiations[sess.negotiation_id].driver_id],
                   Loads[negotiations[sess.negotiation_id].load_id].ref_id)
    /\ UNCHANGED <<drivers, mailbox, seen, outbox, queue, cur, faults, done, redo>>
    /\ UNCHANGED Harnesses

\* send_outbound_email: accepted by SMTP, reported as failed (False), or raising
SendEmail ==
    /\ pc = "sending"
    /\ LET n == sess.negotiation_id
           neg == negotiations[n]
           status_after == IF sess.closing THEN "CLOSING_STANCE" ELSE neg.status
           decision_row == Row(n, "SYSTEM", sess.decision.zone, EmptyStored,
                               sess.decision.action, sess.decision.price)
       IN  \E outcome \in {"sent", "refused", "raised"} :
           CASE outcome = "sent" ->
                  /\ outbox' = Append(outbox,
                        [negotiation_id |-> n, subject |-> Loads[neg.load_id].ref_id,
                         body |-> sess.email_body, action |-> sess.decision.action,
                         price |-> sess.decision.price])
                  /\ pc' = "sent"
                  /\ UNCHANGED <<negotiations, messages, commits, result>>
             [] outcome = "refused" ->
                  /\ negotiations' = [negotiations EXCEPT ![n].status = status_after]
                  /\ messages' = messages \o
                        <<decision_row,
                          Row(n, "SYSTEM", "smtp_failed", EmptyStored, sess.decision.action,
                              NoPrice)>>
                  /\ commits' = commits + 1
                  /\ result' = "WAITING_FOR_HUMAN"
                  /\ pc' = "mark"
                  /\ UNCHANGED outbox
             [] OTHER ->
                  \* the exception leaves handle_broker_reply; _route_and_store
                  \* logs it and the session is closed without a commit
                  /\ pc' = "mark"
                  /\ UNCHANGED <<negotiations, messages, commits, result, outbox>>
    /\ UNCHANGED <<drivers, mailbox, seen, queue, cur, sess, faults, done, redo, runs, lastWrite>>
    /\ UNCHANGED Harnesses

\* after a successful send: current_offer, the "AI SENT" row, commit
CommitSent ==
    /\ pc = "sent"
    /\ LET n == sess.negotiation_id
           neg == negotiations[n]
           status_after == IF sess.closing THEN "CLOSING_STANCE" ELSE neg.status
           price == sess.decision.price
       IN  /\ negotiations' = [negotiations EXCEPT
                ![n].status = status_after,
                ![n].current_offer = IF price # NoPrice THEN price ELSE @]
           /\ messages' = messages \o
                <<Row(n, "SYSTEM", sess.decision.zone, EmptyStored, sess.decision.action, price),
                  Row(n, "SYSTEM", "sent", EmptyStored, sess.decision.action, price)>>
           /\ lastWrite' = IF price # NoPrice
                           THEN [field |-> "current_offer", value |-> price, floor |-> sess.floor,
                                 detected |-> sess.detected]
                           ELSE lastWrite
           /\ result' = sess.decision.action
    /\ commits' = commits + 1
    /\ pc' = "mark"
    /\ UNCHANGED <<drivers, mailbox, seen, outbox, queue, cur, sess, faults, done, redo, runs>>
    /\ UNCHANGED Harnesses

\* _route_and_store returned True: _mark_seen, next uid
MarkSeen ==
    /\ pc = "mark"
    /\ seen' = seen \cup {cur}
    /\ queue' = Tail(queue)
    /\ cur' = 0
    /\ sess' = NoSess
    /\ pc' = "loop"
    /\ UNCHANGED <<drivers, negotiations, messages, mailbox, outbox, result, faults, done, redo,
                   runs, commits, lastWrite>>
    /\ UNCHANGED Harnesses

\* the process stops while a message is in work and is started again: the
\* open session is lost, the mailbox and the committed tables stay
Crash ==
    /\ pc \in {"fetched", "resolved", "stored", "sending", "sent", "mark"}
    /\ faults < MaxFaults
    /\ faults' = faults + 1
    /\ pc' = "idle"
    /\ queue' = <<>>
    /\ cur' = 0
    /\ sess' = NoSess
    /\ UNCHANGED <<drivers, negotiations, messages, mailbox, seen, outbox, result, done, redo,
                   runs, commits, lastWrite>>
    /\ UNCHANGED Harnesses

Next ==
    \/ Search
    \/ EndCycle
    \/ Fetch
    \/ FetchFailed
    \/ RouteResolve
    \/ RouteFailed
    \/ StoreInbound
    \/ SkipPipeline
    \/ HandleBrokerReply
    \/ SendEmail
    \/ CommitSent
    \/ MarkSeen
    \/ Crash

Spec == Init /\ [][Next]_vars

\* the replies to the first outbound email of a load: send_negotiation_email
\* writes From and Reply-To as handle+load_ref@domain and the Subject
\* "Load Inquiry #load_ref", whose load reference pattern yields "Inquiry"
InitBootstrap ==
    /\ mode = "dispatch_and_handles"
    /\ ParserOff
    /\ DecisionOff
    /\ drivers \in InitialDrivers
    /\ negotiations \in InitialNegotiations
    /\ messages = <<>>
    /\ mailbox \in [1..MaxMail ->
          {Email(Tagged(HandleLocal, token), <<>>, <<"i", "n", "q", "u", "i", "r", "y">>, <<>>,
                 {[form |-> "dollar", n |-> price]}, FALSE) :
             token \in {<<"2">>, <<"a", "7">>}, price \in {1900}}]
    /\ seen = {}
    /\ outbox = <<>>
    /\ pc = "idle"
    /\ queue = <<>>
    /\ cur = 0
    /\ sess = NoSess
    /\ result = "none"
    /\ faults = 0
    /\ done = {}
    /\ redo = FALSE
    /\ runs = [u \in 1..MaxMail |-> 0]
    /\ commits = 0
    /\ lastWrite = NoWrite
    /\ lsn = ListenerOff
    /\ osub = SubjectOff
    /\ ing = IngestOff
    /\ led = LedgerOff
    /\ man = ManualOff
    /\ apr = ApproveOff
    /\ pol = PollOff

SpecBootstrap == InitBootstrap /\ [][Next]_vars

(***************************************************************************)
(* The harness specifications                                              *)
(***************************************************************************)
InitParser ==
    /\ mode \in PlusLocalModes
    /\ pmsg \in ParserMessages
    /\ prouting = NoRoute
    /\ pnegid = NoNegotiationId
    /\ pphase = "input"
    /\ DecisionOff
    /\ SystemOff
    /\ lsn = ListenerOff
    /\ osub = SubjectOff
    /\ ing = IngestOff
    /\ led = LedgerOff
    /\ man = ManualOff
    /\ apr = ApproveOff
    /\ pol = PollOff

ParseRouting ==
    /\ pphase = "input"
    /\ prouting' = ExtractRoutingFromMessage(pmsg, EmailDomain, mode)
    /\ pphase' = "routed"
    /\ UNCHANGED <<mode, pmsg, pnegid>>
    /\ UNCHANGED decisionVars
    /\ UNCHANGED systemVars

ParseNegotiationId ==
    /\ pphase = "routed"
    /\ pnegid' = ExtractNegotiationIdFromMessage(pmsg, EmailDomain, mode)
    /\ pphase' = "resolved"
    /\ UNCHANGED <<mode, pmsg, prouting>>
    /\ UNCHANGED decisionVars
    /\ UNCHANGED systemVars

NextParser == ParseRouting \/ ParseNegotiationId

SpecParser == InitParser /\ [][NextParser]_vars

InitDecision ==
    /\ mode = "dispatch_and_handles"
    /\ ParserOff
    /\ dcase \in [price : HarnessPrices, settings : HarnessSettings,
                  distance_miles : HarnessDistances, suggestion : HarnessSuggestions]
    /\ dbase = NoDecision
    /\ dguard = NoGuard
    /\ dreply = NoReply
    /\ dprice = NoPriceCase
    /\ dphase = "input"
    /\ SystemOff
    /\ lsn = ListenerOff
    /\ osub = SubjectOff
    /\ ing = IngestOff
    /\ led = LedgerOff
    /\ man = ManualOff
    /\ apr = ApproveOff
    /\ pol = PollOff

Decide ==
    /\ dphase = "input"
    /\ dbase' = ProcessNegotiationLogic(dcase.distance_miles, dcase.price, dcase.settings)
    /\ dphase' = "decided"
    /\ UNCHANGED <<dcase, dguard, dreply, dprice>>
    /\ UNCHANGED parserVars
    /\ UNCHANGED systemVars

Guard ==
    /\ dphase = "decided"
    /\ dguard' = EnforceDecisionGuardrails(dcase.distance_miles, dcase.settings,
                                           dcase.price, dcase.suggestion)
    /\ dphase' = "guarded"
    /\ UNCHANGED <<dcase, dbase, dreply, dprice>>
    /\ UNCHANGED parserVars
    /\ UNCHANGED systemVars

\* handle_broker_reply, lines 259-269: the completion call ends in one of
\* AiOutcomes, and the email text is taken from its payload or from the
\* template of the decision
Compose ==
    /\ dphase = "guarded"
    /\ \E outcome \in AiOutcomes, email_body \in {"", "text written by the assistant"} :
          dreply' = ComposeReply(outcome,
                                 ResolveAiDecision(outcome,
                                     [dcase.suggestion EXCEPT !.email_body = email_body]),
                                 dbase)
    /\ dphase' = "composed"
    /\ UNCHANGED <<dcase, dbase, dguard, dprice>>
    /\ UNCHANGED parserVars
    /\ UNCHANGED systemVars

NextDecision == Decide \/ Guard \/ Compose

SpecDecision == InitDecision /\ [][NextDecision]_vars

\* the price harness: a broker text holding some of seven numeric mentions
\* ($250, $1,900, 1.9k, 2.1k, 18 hundred, "for 25000", a bare 2300) and the
\* reference of the load: A7, T-1900 or 2100
InitPrice ==
    /\ mode = "dispatch_and_handles"
    /\ ParserOff
    /\ dcase = NoCase
    /\ dbase = NoDecision
    /\ dguard = NoGuard
    /\ dreply = NoReply
    /\ dphase = "off"
    /\ dprice \in [text : {[mentions |-> M] :
                              M \in SUBSET {[form |-> "dollar", n |-> 250],
                                            [form |-> "dollar", n |-> 1900],
                                            [form |-> "k", n |-> 19],
                                            [form |-> "k", n |-> 21],
                                            [form |-> "hundred", n |-> 18],
                                            [form |-> "verb", n |-> 25000],
                                            [form |-> "bare", n |-> 2300]}},
                    load_ref : {<<"a", "7">>, <<"t", "-", "1", "9", "0", "0">>,
                                <<"2", "1", "0", "0">>},
                    detected : {NoPrice},
                    phase : {"input"}]
    /\ SystemOff
    /\ lsn = ListenerOff
    /\ osub = SubjectOff
    /\ ing = IngestOff
    /\ led = LedgerOff
    /\ man = ManualOff
    /\ apr = ApproveOff
    /\ pol = PollOff

\* handle_broker_reply, lines 245-256: the ignored values of the load
\* reference, then extract_price_from_text
ExtractPrice ==
    /\ dprice.phase = "input"
    /\ dprice' = [dprice EXCEPT
                     !.detected = ExtractPriceFromText(dprice.text, IgnoredValues(dprice.load_ref)),
                     !.phase = "priced"]
    /\ UNCHANGED <<dcase, dbase, dguard, dreply, dphase>>
    /\ UNCHANGED parserVars
    /\ UNCHANGED systemVars

SpecPrice == InitPrice /\ [][ExtractPrice]_vars

(***************************************************************************)
(* Listener harness: the control flow of listen_for_replies.  lsn.mail is  *)
(* the local variable mail (None, a connection, or a connection that was   *)
(* logged out at shutdown), lsn.uids the unseen uids left in the for loop, *)
(* lsn.wait the last time.sleep that returned, lsn.stale whether the       *)
(* connection held in mail has suffered a transport failure.               *)
(***************************************************************************)

\* lines 404-408: mail = None, then the outer try and the first iteration
InitListener ==
    /\ mode = "dispatch_and_handles"
    /\ ParserOff
    /\ DecisionOff
    /\ SystemOff
    /\ lsn = [ListenerOff EXCEPT !.pc = "top"]
    /\ osub = SubjectOff
    /\ ing = IngestOff
    /\ led = LedgerOff
    /\ man = ManualOff
    /\ apr = ApproveOff
    /\ pol = PollOff

\* a variant of the handlers that keeps the connection after a transport
\* failure, as the handler of the other exceptions does
AfterFailureKeepsConnection(l, kind, call) ==
    [l EXCEPT !.pc = "backoff", !.wait = "pending", !.faults = l.faults + 1,
              !.stale = (l.stale \/ (kind = "transport" /\ l.mail = "open")),
              !.raised = kind, !.at = call]

\* lines 436-447: the two except clauses of the inner try, up to the sleep
AfterFailure(l, kind, call) ==
    IF kind = "transport"
    THEN [l EXCEPT !.pc = "backoff", !.wait = "pending", !.faults = l.faults + 1,
                   !.mail = "none", !.stale = FALSE,
                   !.raised = kind, !.at = call]
    ELSE [l EXCEPT !.pc = "backoff", !.wait = "pending", !.faults = l.faults + 1,
                   !.raised = kind, !.at = call]

\* lines 410-412: mail is None, _connect_imap returns a connection
Connect ==
    /\ lsn.pc = "top"
    /\ lsn.mail = "none"
    /\ lsn' = [lsn EXCEPT !.mail = "open", !.stale = FALSE]
    /\ UNCHANGED <<parserVars, decisionVars, dbVars, pollerVars, historyVars, osub, ing, led, man, apr, pol>>

\* lines 414-419: select and search return, the unseen uids are split
SelectSearch ==
    /\ lsn.pc = "top"
    /\ lsn.mail = "open"
    /\ \E unseen \in 0..MaxMail :
            lsn' = [lsn EXCEPT !.pc = "loop", !.uids = unseen]
    /\ UNCHANGED <<parserVars, decisionVars, dbVars, pollerVars, historyVars, osub, ing, led, man, apr, pol>>

\* lines 420-433: one uid of the for loop, without an exception
ProcessUid ==
    /\ lsn.pc = "loop"
    /\ lsn.uids > 0
    /\ lsn' = [lsn EXCEPT !.uids = lsn.uids - 1]
    /\ UNCHANGED <<parserVars, decisionVars, dbVars, pollerVars, historyVars, osub, ing, led, man, apr, pol>>

\* line 435: the for loop is over, time.sleep(poll_seconds)
SleepPoll ==
    /\ lsn.pc = "loop"
    /\ lsn.uids = 0
    /\ lsn' = [lsn EXCEPT !.pc = "top", !.wait = "poll"]
    /\ UNCHANGED <<parserVars, decisionVars, dbVars, pollerVars, historyVars, osub, ing, led, man, apr, pol>>

\* lines 409-447: a call of the iteration raises; a transport failure is
\* imaplib.IMAP4.abort, OSError or TimeoutError, any other Exception is "other"
CycleFails ==
    /\ lsn.faults < MaxFaults + 1
    /\ \E kind \in {"transport", "other"},
          call \in IF lsn.pc = "top"
                   THEN IF lsn.mail = "none" THEN {"connect"} ELSE {"select", "search"}
                   ELSE IF lsn.pc = "loop" /\ lsn.uids > 0
                        THEN {"fetch", "route_and_store", "mark_seen"}
                        ELSE {} :
            lsn' = AfterFailure(lsn, kind, call)
    /\ UNCHANGED <<parserVars, decisionVars, dbVars, pollerVars, historyVars, osub, ing, led, man, apr, pol>>

\* lines 444 and 447: time.sleep(reconnect_seconds) returns, next iteration
SleepReconnect ==
    /\ lsn.pc = "backoff"
    /\ lsn' = [lsn EXCEPT !.pc = "top", !.wait = "reconnect"]
    /\ UNCHANGED <<parserVars, decisionVars, dbVars, pollerVars, historyVars, osub, ing, led, man, apr, pol>>

\* lines 448-454: KeyboardInterrupt anywhere in the loop, logout if connected
Shutdown ==
    /\ lsn.pc \in {"top", "loop", "backoff"}
    /\ lsn' = [lsn EXCEPT !.pc = "stopped",
                          !.mail = IF lsn.mail = "open" THEN "logged_out" ELSE lsn.mail,
                          !.raised = "KeyboardInterrupt"]
    /\ UNCHANGED <<parserVars, decisionVars, dbVars, pollerVars, historyVars, osub, ing, led, man, apr, pol>>

NextListener ==
    \/ Connect
    \/ SelectSearch
    \/ ProcessUid
    \/ SleepPoll
    \/ CycleFails
    \/ SleepReconnect
    \/ Shutdown

SpecListener == InitListener /\ [][NextListener]_vars

(***************************************************************************)
(* Subject harness: _append_subject_token and the subject-token layer of   *)
(* extract_negotiation_id_from_message.  A Subject is the sequence of its   *)
(* pieces: "token" is a bracket written exactly [GCD:id], "spaced" one the  *)
(* pattern accepts in another spelling ([gcd: id ]), "text" anything else.  *)
(***************************************************************************)

\* services/email.py lines 50-56; f"[GCD:{negotiation_id}]" writes the id in
\* decimal, token in subject is the search for that exact bracket
AppendSubjectToken(subject, negotiation_id) ==
    LET d(k) == CHOOSE c \in Digits : DigitVal(c) = k
        token == [form |-> "token",
                  id |-> IF negotiation_id < 10
                         THEN <<d(negotiation_id)>>
                         ELSE <<d(negotiation_id \div 10), d(negotiation_id % 10)>>]
    IN  IF negotiation_id = 0
        THEN subject
        ELSE IF \E i \in 1..Len(subject) : subject[i] = token
        THEN subject
        ELSE Append(subject, token)

\* parser.py lines 137-138: SUBJECT_NEGOTIATION_TOKEN_RE.search returns the
\* leftmost bracket the pattern accepts, whatever its spelling
SubjectOf(pieces) ==
    LET brackets == {i \in 1..Len(pieces) : pieces[i].form \in {"token", "spaced"}}
    IN  [gcd |-> IF brackets = {}
                 THEN <<>>
                 ELSE pieces[CHOOSE i \in brackets : \A j \in brackets : i <= j].id,
         load_ref |-> <<>>]

InitSubject ==
    /\ mode = "dispatch_and_handles"
    /\ ParserOff
    /\ DecisionOff
    /\ SystemOff
    /\ lsn = ListenerOff
    /\ ing = IngestOff
    /\ led = LedgerOff
    /\ man = ManualOff
    /\ apr = ApproveOff
    /\ pol = PollOff
    /\ \E k \in 0..2 :
        \E subject \in [1..k -> {[form |-> "token", id |-> <<"4">>],
                                 [form |-> "token", id |-> <<"7">>],
                                 [form |-> "token", id |-> <<"4", "1">>],
                                 [form |-> "spaced", id |-> <<"4">>],
                                 [form |-> "text", id |-> <<>>]}] :
        \E negotiation_id \in {0, 4, 12} :
            osub = [SubjectOff EXCEPT !.subject = subject,
                                      !.negotiation_id = negotiation_id,
                                      !.phase = "input"]

\* services/email.py line 175 and parser.py lines 137-143: the Subject is
\* written on the outbound message and read back from the reply
SendSubject ==
    /\ osub.phase = "input"
    /\ osub' = [osub EXCEPT
            !.sent = AppendSubjectToken(osub.subject, osub.negotiation_id),
            !.twice = AppendSubjectToken(
                          AppendSubjectToken(osub.subject, osub.negotiation_id),
                          osub.negotiation_id),
            !.parsed = ExtractNegotiationIdFromMessage(
                          [hdrs |-> HeadersWith(1, <<>>, 1, <<>>),
                           subject |-> SubjectOf(AppendSubjectToken(osub.subject,
                                                                    osub.negotiation_id)),
                           xheader |-> <<>>, sender |-> "", body |-> NoBody, pdf |-> FALSE],
                          EmailDomain, mode),
            !.phase = "sent"]
    /\ UNCHANGED <<parserVars, decisionVars, dbVars, pollerVars, historyVars, lsn, ing, led, man, apr, pol>>

SpecSubject == InitSubject /\ [][SendSubject]_vars

(***************************************************************************)
(* Ingest harness: two scout ingest requests whose next step is AUTO_SENT  *)
(* (target status Sent) or NEEDS_APPROVAL (Queued), each running           *)
(* _get_or_create_negotiation in its own session on the same table.  The   *)
(* negotiations table has no unique constraint on (driver_id, load_id).    *)
(***************************************************************************)

InitIngest ==
    /\ mode = "dispatch_and_handles"
    /\ ParserOff
    /\ DecisionOff
    /\ SystemOff
    /\ lsn = ListenerOff
    /\ osub = SubjectOff
    /\ led = LedgerOff
    /\ man = ManualOff
    /\ apr = ApproveOff
    /\ pol = PollOff
    /\ \E rows \in {<<>>} \cup {<<[driver_id |-> 1, load_id |-> 1, status |-> st]>> :
                                     st \in {"Dismissed", "Draft", "Sent", "CLOSED",
                                            "CLOSING_STANCE", "RATE_CON_SIGNED"}} :
        \E reqs \in [1..2 -> [driver_id : {1, 2}, load_id : {1},
                              target_status : {"Sent", "Queued"},
                              pc : {"start"}, existing : {[id |-> 0, status |-> ""]}]] :
            ing = [rows |-> rows, reqs |-> reqs]

\* routes/ingest.py lines 178-185: the query for a row of the pair, .first()
IngestQuery ==
    /\ \E r \in DOMAIN ing.reqs :
        /\ ing.reqs[r].pc = "start"
        /\ LET found == {i \in DOMAIN ing.rows :
                            /\ ing.rows[i].driver_id = ing.reqs[r].driver_id
                            /\ ing.rows[i].load_id = ing.reqs[r].load_id}
           IN  ing' = [ing EXCEPT !.reqs[r].pc = "queried",
                          !.reqs[r].existing =
                              IF found = {}
                              THEN [id |-> 0, status |-> ""]
                              ELSE [id |-> CHOOSE i \in found : \A j \in found : i <= j,
                                    status |-> ing.rows[CHOOSE i \in found :
                                                            \A j \in found : i <= j].status]]
    /\ UNCHANGED <<parserVars, decisionVars, dbVars, pollerVars, historyVars, lsn, osub, led, man, apr, pol>>

\* routes/ingest.py lines 187-210: keep, re-activate or insert, then commit
IngestWrite ==
    /\ \E r \in DOMAIN ing.reqs :
        /\ ing.reqs[r].pc = "queried"
        /\ ing' = [ing EXCEPT
               !.reqs[r].pc = "done",
               !.rows = IF ing.reqs[r].existing.id # 0
                        THEN IF ing.reqs[r].existing.status \in {"Sent", "Queued", "CLOSED", "WON"}
                             THEN @
                             ELSE [@ EXCEPT ![ing.reqs[r].existing.id].status =
                                                ing.reqs[r].target_status]
                        ELSE Append(@, [driver_id |-> ing.reqs[r].driver_id,
                                        load_id |-> ing.reqs[r].load_id,
                                        status |-> ing.reqs[r].target_status])]
    /\ UNCHANGED <<parserVars, decisionVars, dbVars, pollerVars, historyVars, lsn, osub, led, man, apr, pol>>

NextIngest == IngestQuery \/ IngestWrite

SpecIngest == InitIngest /\ [][NextIngest]_vars

(***************************************************************************)
(* Ledger harness: process_load_fees called in one session.  Money is in   *)
(* cents.  Driver 1 has no referrer, driver 2 was referred by driver 1 and *)
(* its referral window is open (or starts with the first fee), driver 3    *)
(* was referred by driver 1 and its window has expired.  led.windows is    *)
(* the set of drivers whose referral window columns are set.               *)
(***************************************************************************)

\* the calls of one behaviour
LedgerCalls == 3

InitLedger ==
    /\ mode = "dispatch_and_handles"
    /\ ParserOff
    /\ DecisionOff
    /\ SystemOff
    /\ lsn = ListenerOff
    /\ osub = SubjectOff
    /\ ing = IngestOff
    /\ man = ManualOff
    /\ apr = ApproveOff
    /\ pol = PollOff
    /\ \E windows \in {{3}, {1, 3}, {2, 3}} :
            led = [LedgerOff EXCEPT !.windows = windows]

\* a variant without the lookup of an existing fee_ledger row
ProcessLoadFeesNoLookup(l, load_value, driver_id, negotiation_id) ==
    [l EXCEPT !.fee_ledger = Append(@, [negotiation_id |-> negotiation_id,
                                        driver_id |-> driver_id,
                                        total_fee_collected |-> (load_value * 25 + 500) \div 1000,
                                        referral_bounty_paid |-> 0]),
              !.calls = Append(@, [negotiation_id |-> negotiation_id, created |-> TRUE,
                                   wrote |-> TRUE])]

\* ledger.py lines 61-235: _money is quantize(CENT, ROUND_HALF_UP),
\* DISPATCH_FEE_RATE 0.025, REFERRAL_BOUNTY_RATE 0.10, REFERRAL_BOUNTY_CAP 5.00
ProcessLoadFees(l, load_value, driver_id, negotiation_id) ==
    IF \E i \in DOMAIN l.fee_ledger : l.fee_ledger[i].negotiation_id = negotiation_id
    THEN [l EXCEPT !.calls = Append(@, [negotiation_id |-> negotiation_id, created |-> FALSE,
                                        wrote |-> FALSE])]
    ELSE LET total_fee_collected == (load_value * 25 + 500) \div 1000
             referred_by_id == IF driver_id \in {2, 3} THEN 1 ELSE 0
             referral_is_active == driver_id = 2
             raw_bounty == (total_fee_collected * 10 + 50) \div 100
             referral_bounty_paid ==
                 IF referral_is_active
                 THEN IF raw_bounty <= 500 THEN raw_bounty ELSE 500
                 ELSE 0
         IN  [l EXCEPT
                !.windows = IF referred_by_id # 0
                            THEN @ \cup {driver_id}
                            ELSE @ \ {driver_id},
                !.fee_ledger = Append(@, [negotiation_id |-> negotiation_id,
                                          driver_id |-> driver_id,
                                          total_fee_collected |-> total_fee_collected,
                                          referral_bounty_paid |-> referral_bounty_paid]),
                !.referral_earnings =
                    IF referral_is_active /\ referral_bounty_paid > 0
                    THEN Append(@, [negotiation_id |-> negotiation_id,
                                    referrer_id |-> referred_by_id,
                                    referred_driver_id |-> driver_id,
                                    amount |-> referral_bounty_paid])
                    ELSE @,
                !.calls = Append(@, [negotiation_id |-> negotiation_id, created |-> TRUE,
                                     wrote |-> TRUE])]

\* routes/operations.py lines 473-478 and 732-737: a caller settles the fees
\* of a negotiation; the load value is in cents
SettleFees ==
    /\ Len(led.calls) < LedgerCalls
    /\ \E load_value \in {0, 120000, 300000}, driver_id \in {1, 2, 3}, negotiation_id \in {1, 2} :
            LET after == ProcessLoadFees(led, load_value, driver_id, negotiation_id)
            IN  led' = [after EXCEPT !.calls[Len(after.calls)].wrote =
                            \/ after.fee_ledger # led.fee_ledger
                            \/ after.referral_earnings # led.referral_earnings
                            \/ after.windows # led.windows]
    /\ UNCHANGED <<parserVars, decisionVars, dbVars, pollerVars, historyVars, lsn, osub, ing, man, apr, pol>>

SpecLedger == InitLedger /\ [][SettleFees]_vars

(***************************************************************************)
(* Manual-mode harness: one negotiation row, the poller processing inbound *)
(* messages routed to it, and the driver's manual-mode request in another  *)
(* session.  man.status is the committed status column, man.left the       *)
(* inbound messages still to come, man.manual whether the driver's request *)
(* has committed, man.late_runs the runs of handle_broker_reply for        *)
(* messages whose processing started after that commit.                    *)
(***************************************************************************)

InitManual ==
    /\ mode = "dispatch_and_handles"
    /\ ParserOff
    /\ DecisionOff
    /\ SystemOff
    /\ lsn = ListenerOff
    /\ osub = SubjectOff
    /\ ing = IngestOff
    /\ led = LedgerOff
    /\ apr = ApproveOff
    /\ pol = PollOff
    /\ \E status \in {"Sent", "CLOSING_STANCE", "MANUAL_REVIEW"}, auto_negotiate \in BOOLEAN,
          left \in 1..(MaxMail + 1) :
            man = [ManualOff EXCEPT !.status = status, !.auto_negotiate = auto_negotiate,
                                    !.left = left, !.pc = "idle"]

\* inbound_listener.py lines 345-357: the Broker row is committed, the
\* status is read and tested against blocked_statuses; handle_broker_reply
\* starts with the row as it was read
PollerGate ==
    /\ man.pc = "idle"
    /\ man.left > 0
    /\ IF man.auto_negotiate /\ man.status \notin BlockedStatuses
       THEN \E zone \in {"GREEN", "YELLOW", "RED"} :
               man' = [man EXCEPT !.pc = "running", !.zone = zone,
                                  !.late_runs = IF man.manual THEN @ + 1 ELSE @]
       ELSE man' = [man EXCEPT !.left = @ - 1]
    /\ UNCHANGED <<parserVars, decisionVars, dbVars, pollerVars, historyVars, lsn, osub, ing, led, apr, pol>>

\* negotiator.py lines 291-396 and 409-411: the run commits; the UPDATE
\* writes the status column only when process_negotiation_logic assigned it
PollerCommit ==
    /\ man.pc = "running"
    /\ man' = [man EXCEPT !.pc = "idle", !.left = @ - 1,
                          !.status = IF man.zone = "GREEN" THEN "CLOSING_STANCE" ELSE @,
                          !.current_offer = IF man.zone = "RED" THEN @ ELSE @ + 1]
    /\ UNCHANGED <<parserVars, decisionVars, dbVars, pollerVars, historyVars, lsn, osub, ing, led, apr, pol>>

\* main.py lines 1085-1117: the driver's request sets Manual and commits
SetManualMode ==
    /\ man.pc \in {"idle", "running"}
    /\ ~man.manual
    /\ man' = [man EXCEPT !.status = "Manual", !.manual = TRUE]
    /\ UNCHANGED <<parserVars, decisionVars, dbVars, pollerVars, historyVars, lsn, osub, ing, led, apr, pol>>

NextManual == PollerGate \/ PollerCommit \/ SetManualMode

SpecManual == InitManual /\ [][NextManual]_vars

\* ---------------------------------------------------------------------
\* approve_draft_send (main.py): requests of the driver for one negotiation
\* with a pending-review draft. Each request has its own database session;
\* the handler yields at "await send_outbound_email".

ApproveRequests == 3

\* negotiator.py lines 341-345: the draft is one the review branch stores
\* (action, price in cents; -1 is None)
InitApprove ==
    /\ mode = "dispatch_and_handles"
    /\ ParserOff
    /\ DecisionOff
    /\ SystemOff
    /\ lsn = ListenerOff
    /\ osub = SubjectOff
    /\ ing = IngestOff
    /\ led = LedgerOff
    /\ man = ManualOff
    /\ pol = PollOff
    /\ \E draft \in {[action |-> "SEND_COUNTER", price |-> 200000],
                     [action |-> "SEND_COUNTER", price |-> 190000],
                     [action |-> "WALK_AWAY", price |-> -1]} :
          apr = [ApproveOff EXCEPT !.pending = draft,
                                   !.pc = [r \in 1..ApproveRequests |-> "start"],
                                   !.read = [r \in 1..ApproveRequests |-> ApproveOff.pending],
                                   !.result = [r \in 1..ApproveRequests |-> ""]]

\* main.py lines 1128-1153: the request loads the negotiation and returns
\* no_pending_draft when the subject or the body is empty
ApproveCheck(r) ==
    /\ apr.pc[r] = "start"
    /\ IF apr.pending.action = ""
       THEN apr' = [apr EXCEPT !.pc[r] = "done", !.result[r] = "no_pending_draft"]
       ELSE apr' = [apr EXCEPT !.pc[r] = "sending", !.read[r] = apr.pending]
    /\ UNCHANGED <<parserVars, decisionVars, dbVars, pollerVars, historyVars, lsn, osub, ing, led, man, pol>>

\* main.py lines 1155-1164: send_outbound_email runs in a worker thread
\* with the subject and body the request loaded; it succeeds or fails
ApproveSend(r) ==
    /\ apr.pc[r] = "sending"
    /\ \E sent \in BOOLEAN :
          apr' = IF sent
                 THEN [apr EXCEPT !.pc[r] = "sent", !.outbox = Append(@, apr.read[r])]
                 ELSE [apr EXCEPT !.pc[r] = "failed"]
    /\ UNCHANGED <<parserVars, decisionVars, dbVars, pollerVars, historyVars, lsn, osub, ing, led, man, pol>>

\* main.py lines 1165-1188: email_send_failed, or current_offer, the
\* System row, the four cleared fields and the commit
ApproveCommit(r) ==
    /\ apr.pc[r] \in {"sent", "failed"}
    /\ IF apr.pc[r] = "failed"
       THEN apr' = [apr EXCEPT !.pc[r] = "done", !.result[r] = "email_send_failed"]
       ELSE apr' = [apr EXCEPT !.pc[r] = "done", !.result[r] = "ok",
                               !.current_offer = IF apr.read[r].price # -1
                                                 THEN apr.read[r].price ELSE @,
                               !.approved_rows = @ + 1,
                               !.pending = ApproveOff.pending]
    /\ UNCHANGED <<parserVars, decisionVars, dbVars, pollerVars, historyVars, lsn, osub, ing, led, man, pol>>

NextApprove == \E r \in 1..ApproveRequests : ApproveCheck(r) \/ ApproveSend(r) \/ ApproveCommit(r)

SpecApprove == InitApprove /\ [][NextApprove]_vars

\* ---------------------------------------------------------------------
\* listen_for_replies (inbound_listener.py) with a transport that stays
\* available: connect, select, search, fetch and store never fail; only
\* _route_and_store may raise. Each message carries the negotiation id of
\* its [GCD:n] subject token, as decimal digits; negotiations.id is a 32-bit
\* Integer column.

PollMail == 3

\* _route_and_store lines 210-215: int(token) always succeeds; the query
\* is accepted when the number fits the Integer column (at most 2147483647)
FitsInteger(digits) ==
    LET most == <<2, 1, 4, 7, 4, 8, 3, 6, 4, 7>>
    IN  \/ Len(digits) < Len(most)
        \/ /\ Len(digits) = Len(most)
           /\ \A i \in 1..Len(most) :
                 digits[i] > most[i] => \E j \in 1..(i - 1) : digits[j] < most[j]

InitPoll ==
    /\ mode = "dispatch_and_handles"
    /\ ParserOff
    /\ DecisionOff
    /\ SystemOff
    /\ lsn = ListenerOff
    /\ osub = SubjectOff
    /\ ing = IngestOff
    /\ led = LedgerOff
    /\ man = ManualOff
    /\ apr = ApproveOff
    /\ \E box \in [1..PollMail -> {<<1>>, <<2, 1, 4, 7, 4, 8, 3, 6, 4, 7>>,
                                    <<2, 1, 4, 7, 4, 8, 3, 6, 4, 8>>}] :
          pol = [PollOff EXCEPT !.box = box, !.pc = "top"]

\* lines 416-421: mail.search(None, "UNSEEN"), the uids in mailbox order
PollSearch ==
    /\ pol.pc = "top"
    /\ pol' = [pol EXCEPT !.pc = "loop",
                          !.queue = AscendingSeq({u \in DOMAIN pol.box : u \notin pol.seen})]
    /\ UNCHANGED <<parserVars, decisionVars, dbVars, pollerVars, historyVars, lsn, osub, ing, led, man, apr>>

\* lines 422-432: mail.fetch(uid, "(RFC822)") of the next uid; the server
\* may set \Seen with the fetch (RFC 3501 6.4.5)
PollFetch ==
    /\ pol.pc = "loop"
    /\ pol.queue # <<>>
    /\ \E implicit_seen \in BOOLEAN :
          pol' = [pol EXCEPT !.pc = "fetched", !.cur = Head(pol.queue),
                             !.queue = Tail(pol.queue),
                             !.seen = IF implicit_seen THEN @ \cup {Head(pol.queue)} ELSE @]
    /\ UNCHANGED <<parserVars, decisionVars, dbVars, pollerVars, historyVars, lsn, osub, ing, led, man, apr>>

\* lines 433-435 and 447-448 with _route_and_store lines 210-215: the
\* lookup by the token's id raises when the id does not fit the Integer
\* column; the exception leaves the for loop and is logged by "except
\* Exception". Otherwise the message is stored and _mark_seen is called.
PollRouteAndStore ==
    /\ pol.pc = "fetched"
    /\ pol' = IF ~FitsInteger(pol.box[pol.cur])
              THEN [pol EXCEPT !.pc = "backoff", !.queue = <<>>]
              ELSE [pol EXCEPT !.pc = "loop", !.stored = @ \cup {pol.cur},
                               !.seen = @ \cup {pol.cur}]
    /\ UNCHANGED <<parserVars, decisionVars, dbVars, pollerVars, historyVars, lsn, osub, ing, led, man, apr>>

\* lines 437 and 449: time.sleep(poll_seconds) after the for loop, or
\* time.sleep(reconnect_seconds) after the exception, then the next cycle
PollSleep ==
    /\ \/ pol.pc = "loop" /\ pol.queue = <<>>
       \/ pol.pc = "backoff"
    /\ pol' = [pol EXCEPT !.pc = "top"]
    /\ UNCHANGED <<parserVars, decisionVars, dbVars, pollerVars, historyVars, lsn, osub, ing, led, man, apr>>

NextPoll == PollSearch \/ PollFetch \/ PollRouteAndStore \/ PollSleep

\* the loop is "while True" in one thread: a step that can be taken is taken
SpecPoll == InitPoll /\ [][NextPoll]_vars /\ WF_vars(NextPoll)

(***************************************************************************)
(* Properties of the parser (SpecParser)                                   *)
(***************************************************************************)
\* a tagged address whose captured parts pass the checks of
\* _extract_plus_token_from_address
ValidTag(a) ==
    /\ a.tagged
    /\ LowerDomain(a.domain) = EmailDomain
    /\ Len(a.token) > 0
    /\ IsAllowedLocalPart(a.local, mode)

\* positions (header index, address index) of the recipient headers of pmsg
TagPositions ==
    {<<h, i>> : h \in HeaderIdx, i \in 1..2} \cap
    {pos \in HeaderIdx \X (1..2) : pos[2] <= Len(pmsg.hdrs[HeaderOrder[pos[1]]])}

AddressAt(pos) == pmsg.hdrs[HeaderOrder[pos[1]]][pos[2]]

Before(p1, p2) == p1[1] < p2[1] \/ (p1[1] = p2[1] /\ p1[2] < p2[2])

DigitTagPositions == {pos \in TagPositions : ValidTag(AddressAt(pos)) /\ IsDigitStr(AddressAt(pos).token)}

FirstValidTagPositions ==
    {pos \in TagPositions :
        /\ ValidTag(AddressAt(pos))
        /\ \A q \in TagPositions : Before(q, pos) => ~ValidTag(AddressAt(q))}

\* C1 as stated: whenever some recipient header holds a valid tagged address
\* with an all-digit token, the message resolves at layer plus_tag to the
\* value of such a token, whatever the Subject and X-GCD-Negotiation-ID say.
C1_AnyDigitTagWins ==
    (pphase = "resolved" /\ DigitTagPositions # {}) =>
        /\ pnegid.ok
        /\ pnegid.layer = "plus_tag"
        /\ \E pos \in DigitTagPositions : pnegid.negotiation_id = StrToInt(AddressAt(pos).token)

\* C1 amended: when the first valid tagged address in header order has an
\* all-digit token, the message resolves at layer plus_tag to that token's
\* integer value, whatever the Subject and X-GCD-Negotiation-ID say.
C1_FirstDigitTagWins ==
    pphase = "resolved" =>
        \A pos \in FirstValidTagPositions :
            IsDigitStr(AddressAt(pos).token) =>
                pnegid = [ok |-> TRUE, negotiation_id |-> StrToInt(AddressAt(pos).token),
                          layer |-> "plus_tag"]

\* a resolved message whose first valid tag is numeric while the Subject
\* token and the transport header both carry other ids
C1_Witness ==
    /\ pphase = "resolved"
    /\ \E pos \in FirstValidTagPositions : IsDigitStr(AddressAt(pos).token)
    /\ SubjectTokenMatches(pmsg.subject)
    /\ IsDigitStr(pmsg.xheader)
    /\ pnegid.layer = "plus_tag"
    /\ pnegid.negotiation_id # StrToInt(pmsg.subject.gcd)
    /\ pnegid.negotiation_id # StrToInt(pmsg.xheader)

(***************************************************************************)
(* Properties of the decision engine and the guardrails (SpecDecision)     *)
(***************************************************************************)
CaseFloor == AbsoluteFloor(dcase.distance_miles, dcase.settings, dcase.price)

\* C2 as stated: for every suggestion whose action is not WALK_AWAY the price
\* returned by _enforce_decision_guardrails is at least the floor and a
\* multiple of 50.
C2_GuardPriceAtLeastFloor ==
    (dphase = "guarded" /\ ~dguard.raised /\ dguard.action # "WALK_AWAY") =>
        /\ dguard.price >= CaseFloor
        /\ dguard.price % 5000 = 0

\* floor 2000, no per-mile minimum in effect
MatrixCase(offer_dollars) ==
    /\ dcase.price = 100 * offer_dollars
    /\ CaseFloor = 200000

\* C4: process_negotiation_logic classifies by price / floor: >= 0.95 closes
\* at max(price, floor); [0.80, 0.95) counters at floor * 1.08 rounded to the
\* nearest 50; < 0.80 walks away without a price; and the nine offers of the
\* verification matrix fall in the stated zones.
C4_ZoneClassification ==
    dphase \in {"decided", "guarded"} =>
        LET p == dcase.price
            f == CaseFloor
        IN  /\ (100 * p >= 95 * f) =>
                /\ dbase.action = "SEND_COUNTER"
                /\ dbase.template = "close_the_deal"
                /\ dbase.price = Max(p, f)
            /\ (100 * p >= 80 * f /\ 100 * p < 95 * f) =>
                /\ dbase.action = "SEND_COUNTER"
                /\ dbase.template = "standard_negotiation"
                /\ dbase.price % 5000 = 0
                /\ 100 * dbase.price - 108 * f <= 250000
                /\ 108 * f - 100 * dbase.price <= 250000
            /\ (100 * p < 80 * f) =>
                /\ dbase.action = "WALK_AWAY"
                /\ dbase.template = "polite_decline"
                /\ dbase.price = NoPrice
            /\ (\E o \in {1000, 1400, 1590} : MatrixCase(o)) =>
                dbase.action = "WALK_AWAY"
            /\ (\E o \in {1610, 1800, 1890} : MatrixCase(o)) =>
                (dbase.action = "SEND_COUNTER" /\ dbase.template = "standard_negotiation"
                    /\ dbase.price = 215000)
            /\ (\E o \in {1910, 2100, 2400} : MatrixCase(o)) =>
                (dbase.action = "SEND_COUNTER" /\ dbase.template = "close_the_deal"
                    /\ dbase.price >= 200000)

\* an offer of 1910 against a floor of 2000 has been closed at the floor
C4_Witness ==
    /\ dphase = "decided"
    /\ MatrixCase(1910)
    /\ dbase.template = "close_the_deal"
    /\ dbase.price = 200000

(***************************************************************************)
(* Properties of the poller and the orchestrator (Spec)                    *)
(***************************************************************************)
\* C3: every price written to current_offer or pending_review_price is at
\* least the floor computed for the message that caused the write, with or
\* without a suggestion of the assistant.
C3_WrittenPriceAtLeastFloor ==
    (lastWrite.field # "none" /\ lastWrite.value # NoPrice) =>
        /\ lastWrite.detected >= 30000
        /\ lastWrite.detected <= 2000000
        /\ lastWrite.value >= lastWrite.floor

\* an offer below the floor was answered by email, with a text of the
\* assistant in the outbox, and a price was written to current_offer
C3_Witness ==
    /\ lastWrite.field = "current_offer"
    /\ lastWrite.detected < lastWrite.floor
    /\ \E i \in 1..Len(outbox) : outbox[i].body.source = "assistant"

\* the Broker rows that hold the email in work as _route_and_store stores it
BrokerRowsInWork ==
    LET stored == StoredBody(mailbox[cur], sess.handle, sess.load_ref)
    IN  {i \in 1..Len(messages) :
            /\ messages[i].sender = "Broker"
            /\ messages[i].negotiation_id = sess.negotiation_id
            /\ messages[i].body = stored}

RECURSIVE SumRuns(_)
SumRuns(U) == IF U = {} THEN 0 ELSE LET u == SetMin(U) IN runs[u] + SumRuns(U \ {u})

\* C5: however often an email is submitted for a negotiation, no two Broker
\* rows of that negotiation hold it, exactly one holds it once
\* _route_and_store is past the duplicate test, and handle_broker_reply has
\* run at most once over all its submissions.
C5_IdempotentIngestion ==
    /\ \A i, j \in 1..Len(messages) :
        (i < j /\ messages[i].sender = "Broker" /\ messages[j].sender = "Broker"
               /\ messages[i].negotiation_id = messages[j].negotiation_id)
            => messages[i].body # messages[j].body
    /\ (pc \in {"stored", "sending", "sent"} \/ (pc = "mark" /\ sess.negotiation_id # 0))
            => Cardinality(BrokerRowsInWork) = 1
    /\ \A u \in DOMAIN mailbox :
        SumRuns({v \in DOMAIN mailbox : mailbox[v] = mailbox[u]}) <= 1

\* the same email has gone through _route_and_store under two uids: one
\* Broker row, one run of the pipeline
C5_Witness ==
    \E u, v \in DOMAIN mailbox :
        /\ u # v
        /\ mailbox[u] = mailbox[v]
        /\ {u, v} \subseteq done
        /\ runs[u] + runs[v] = 1
        /\ Cardinality({i \in 1..Len(messages) : messages[i].sender = "Broker"}) = 1

\* C6 as stated: a message carries \Seen only after _route_and_store has
\* committed its Broker row or classified it (duplicate, unresolved,
\* ambiguous); a message whose processing failed or stopped earlier is not
\* marked.
C6_SeenOnlyAfterStored == seen \subseteq done

\* C7 as stated: everything persisted for one inbound message is committed
\* in one transaction.
C7_OneTransaction == commits <= 1

\* C8 as stated: re-processing a message that was committed or classified
\* before the process stopped changes no table and sends nothing.
C8_ReprocessingIsNoOp ==
    [][(redo /\ pc \in {"fetched", "resolved", "stored", "sending", "sent"}) =>
            (messages' = messages /\ negotiations' = negotiations /\ outbox' = outbox)]_vars

\* the candidates of the Subject heuristic for a message that no id-bearing
\* signal and no handle+load pair resolves; {} otherwise
HeuristicOnlyCandidates(msg) ==
    LET id == ExtractNegotiationIdFromMessage(msg, EmailDomain, mode)
        routing == ExtractRoutingFromMessage(msg, EmailDomain, mode)
        driver == FindDriverByHandle(drivers, routing.driver_handle)
        load == FindLoadByRef(routing.load_ref)
        load3 == FindLoadByRef(msg.subject.load_ref)
    IN  IF id.ok /\ id.negotiation_id \in NegIds THEN {}
        ELSE IF routing.ok /\ (\E n \in NegIds : negotiations[n].driver_id = driver
                                                   /\ negotiations[n].load_id = load) THEN {}
        ELSE {n \in NegIds : load3 # 0 /\ negotiations[n].load_id = load3
                               /\ negotiations[n].status # "RATE_CON_SIGNED"}

NewRows == SubSeq(messages', Len(messages) + 1, Len(messages'))

\* C9: a message matched only by the Subject heuristic with two or more
\* candidates sets every candidate to MANUAL_REVIEW, appends one system row
\* to each and nothing else, runs no pipeline, sends nothing, and goes on to
\* be marked as handled.
C9_AmbiguousFansOut ==
    [][(pc = "fetched" /\ pc' # "idle"
            /\ Cardinality(HeuristicOnlyCandidates(mailbox[cur])) >= 2) =>
        LET cands == HeuristicOnlyCandidates(mailbox[cur]) IN
            /\ pc' = "mark"
            /\ \A n \in NegIds :
                IF n \in cands
                THEN negotiations'[n] = [negotiations[n] EXCEPT !.status = "MANUAL_REVIEW"]
                ELSE negotiations'[n] = negotiations[n]
            /\ Len(messages') = Len(messages) + Cardinality(cands)
            /\ SubSeq(messages', 1, Len(messages)) = messages
            /\ \A n \in cands :
                Cardinality({i \in 1..Len(NewRows) :
                    NewRows[i].negotiation_id = n /\ NewRows[i].sender = "System"
                        /\ NewRows[i].tag = "manual_review"}) = 1
            /\ runs' = runs
            /\ outbox' = outbox
            /\ result' = result]_vars

\* two candidates have been flagged by an ambiguous message
C9_Witness ==
    /\ pc = "mark"
    /\ Cardinality(HeuristicOnlyCandidates(mailbox[cur])) >= 2
    /\ \A n \in HeuristicOnlyCandidates(mailbox[cur]) : negotiations[n].status = "MANUAL_REVIEW"
    /\ \E i \in 1..Len(messages) : messages[i].tag = "manual_review"

ReviewOptIn(n) == drivers[negotiations[n].driver_id].review_before_send

\* a reply would go out for the message in work: a price is detected, the
\* decision is not a silent walk-away, and the broker's address is known
ReplyDue ==
    LET neg == negotiations[sess.negotiation_id]
        driver == drivers[neg.driver_id]
        price == ExtractPriceFromText(mailbox[cur].body,
                                      IgnoredValues(Loads[neg.load_id].ref_id))
        floor == AbsoluteFloor(0, driver, price)
    IN  /\ price # NoPrice
        /\ (100 * price >= 80 * floor \/ driver.notify_on_decline)
        /\ neg.broker_mc_number \in BrokerEmails

\* C10: for a driver with review_before_send no step of handle_broker_reply
\* sends an email; when a reply is due the draft (subject, body, action,
\* price) is stored in the pending-review fields and REVIEW_REQUIRED is
\* returned.
C10_ReviewBeforeSend ==
    [][(pc \in {"stored", "sending", "sent"} /\ ReviewOptIn(sess.negotiation_id)) =>
        /\ outbox' = outbox
        /\ (pc = "stored" /\ pc' # "idle" /\ AutoNegotiates(sess.negotiation_id) /\ ReplyDue) =>
            LET after == negotiations'[sess.negotiation_id] IN
                /\ result' = "REVIEW_REQUIRED"
                /\ pc' = "mark"
                /\ after.pending_review_subject # <<>>
                /\ after.pending_review_body # NoEmailBody
                /\ after.pending_review_action \in {"SEND_COUNTER", "WALK_AWAY"}
                /\ (after.pending_review_action = "SEND_COUNTER") =
                        (after.pending_review_price # NoPrice)]_vars

\* a draft is waiting for a review driver and nothing was sent
C10_Witness ==
    /\ pc = "mark"
    /\ result = "REVIEW_REQUIRED"
    /\ ReviewOptIn(sess.negotiation_id)
    /\ negotiations[sess.negotiation_id].pending_review_action = "SEND_COUNTER"
    /\ negotiations[sess.negotiation_id].pending_review_price >= 200000
    /\ outbox = <<>>

\* C11 as stated: when the assistant returned a well-formed suggestion, the
\* decision handle_broker_reply sends (action, price, template) is that
\* suggestion passed through _enforce_decision_guardrails, not the decision
\* of process_negotiation_logic.
C11_SuggestionDecides ==
    (pc \in {"sending", "sent"} /\ sess.email_body.source = "assistant") =>
        LET guarded == EnforceDecisionGuardrails(
                           0, drivers[negotiations[sess.negotiation_id].driver_id],
                           sess.detected,
                           CHOOSE s \in SystemSuggestions : s.present)
        IN  /\ sess.decision.action = guarded.action
            /\ sess.decision.price = guarded.price
            /\ sess.decision.template = guarded.template

\* C12 as stated: when the outbound send fails, by a False result of the
\* send primitive or by an exception of the SMTP call, a system message
\* naming the attempted action and the failure is recorded, current_offer is
\* unchanged and the caller sees WAITING_FOR_HUMAN.
C12_SendFailureRecorded ==
    [][(pc = "sending" /\ pc' = "mark") =>
          /\ Len(messages') > Len(messages)
          /\ messages'[Len(messages')].tag = "smtp_failed"
          /\ messages'[Len(messages')].action = sess.decision.action
          /\ negotiations'[sess.negotiation_id].current_offer
                = negotiations[sess.negotiation_id].current_offer
          /\ result' = "WAITING_FOR_HUMAN"]_vars

(***************************************************************************)
(* Further properties of the parser (SpecParser)                           *)
(***************************************************************************)
\* C13 as stated: a structurally valid tagged address on a domain other than
\* the configured one has no influence on routing: extract_routing_from_message
\* and extract_negotiation_id_from_message return what they return for the
\* message without that address.
C13_ForeignTagIgnored ==
    pphase = "resolved" =>
        LET Kept(a) == ~(a.tagged /\ Len(a.local) > 0 /\ Len(a.token) > 0
                          /\ (LowerDomain(a.domain) # EmailDomain \/ a.tail # ""))
            without == [pmsg EXCEPT !.hdrs = [h \in DOMAIN pmsg.hdrs |->
                                                 SelectSeq(pmsg.hdrs[h], Kept)]]
        IN  /\ prouting = ExtractRoutingFromMessage(without, EmailDomain, mode)
            /\ pnegid = ExtractNegotiationIdFromMessage(without, EmailDomain, mode)

\* C14: when no recipient header yields a valid tagged address with an
\* all-digit token, the id is the integer of the Subject token [GCD:<digits>]
\* if there is one (layer subject_token), else the integer of an all-digit
\* X-GCD-Negotiation-ID header (layer x_header), else there is no id; a
\* payload that is not all digits counts as absent at either layer.
C14_SubjectThenTransportHeader ==
    (pphase = "resolved" /\ DigitTagPositions = {}) =>
        pnegid = IF IsDigitStr(pmsg.subject.gcd)
                 THEN [ok |-> TRUE, negotiation_id |-> StrToInt(pmsg.subject.gcd),
                       layer |-> "subject_token"]
                 ELSE IF IsDigitStr(pmsg.xheader)
                 THEN [ok |-> TRUE, negotiation_id |-> StrToInt(pmsg.xheader),
                       layer |-> "x_header"]
                 ELSE [ok |-> FALSE, negotiation_id |-> 0, layer |-> "none"]

\* a message routed by a tag whose token is not a number, carrying both a
\* Subject token and a transport header, has resolved by the Subject token
C14_Witness ==
    /\ pphase = "resolved"
    /\ DigitTagPositions = {}
    /\ prouting.ok
    /\ IsDigitStr(pmsg.subject.gcd)
    /\ IsDigitStr(pmsg.xheader)
    /\ pnegid.layer = "subject_token"
    /\ pnegid.negotiation_id = 5

\* C15: the recipient headers are scanned in the order Delivered-To,
\* X-Original-To, Envelope-To, To, Cc, Reply-To; when several of them hold a
\* valid tagged address, the earliest such header supplies matched_header and
\* the token, and a tag that is only in Reply-To is still found.
C15_EarliestHeaderWins ==
    pphase # "input" =>
        LET tagged_headers == {h \in HeaderIdx : \E pos \in TagPositions :
                                  pos[1] = h /\ ValidTag(AddressAt(pos))}
        IN  \A h \in tagged_headers :
                (\A g \in tagged_headers : h <= g) =>
                    /\ prouting.ok
                    /\ prouting.matched_header = HeaderOrder[h]
                    /\ \E pos \in TagPositions :
                          /\ pos[1] = h
                          /\ ValidTag(AddressAt(pos))
                          /\ prouting.load_ref = AddressAt(pos).token
                          /\ prouting.driver_handle = LowerSeq(AddressAt(pos).local)

\* Delivered-To and a later header hold valid tags with different tokens, and
\* the route is the one of Delivered-To
C15_Witness ==
    /\ pphase = "routed"
    /\ \E p \in TagPositions, q \in TagPositions :
          /\ p[1] = 1
          /\ q[1] > 1
          /\ ValidTag(AddressAt(p))
          /\ ValidTag(AddressAt(q))
          /\ AddressAt(p).token # AddressAt(q).token
          /\ prouting.load_ref = AddressAt(p).token
    /\ prouting.matched_header = "Delivered-To"

\* C16 as stated: the first header that yields any address, valid or not,
\* ends the scan: a later header is used only if no earlier header yields an
\* address, and within that one header all addresses are scanned.
C16_FirstHeaderShortCircuits ==
    pphase # "input" =>
        LET present == {h \in HeaderIdx : Len(pmsg.hdrs[HeaderOrder[h]]) > 0}
        IN  \A h \in present :
                (\A g \in present : h <= g) =>
                    IF \E pos \in TagPositions : pos[1] = h /\ ValidTag(AddressAt(pos))
                    THEN prouting.ok /\ prouting.matched_header = HeaderOrder[h]
                    ELSE prouting = NoRoute

\* C16 amended: headers are scanned in order and, within a header, addresses
\* in order; the first valid tagged address supplies the route, whatever
\* addresses precede it in the same header or in earlier headers, and there
\* is no route only when no header holds a valid tagged address.
C16_FirstValidAddressWins ==
    pphase # "input" =>
        /\ (FirstValidTagPositions = {}) = (prouting = NoRoute)
        /\ \A pos \in FirstValidTagPositions :
              prouting = [ok |-> TRUE, driver_handle |-> LowerSeq(AddressAt(pos).local),
                          load_ref |-> AddressAt(pos).token,
                          matched_header |-> HeaderOrder[pos[1]]]

\* an earlier header holds an address that is no valid tag, and the route is
\* the valid tag of a later header
C16_Witness ==
    /\ pphase = "routed"
    /\ \E p \in TagPositions, q \in TagPositions :
          /\ p[1] < q[1]
          /\ ~ValidTag(AddressAt(p))
          /\ ValidTag(AddressAt(q))
          /\ prouting.ok
          /\ prouting.matched_header = HeaderOrder[q[1]]
          /\ prouting.load_ref = AddressAt(q).token

\* C17 as stated: a tagged address is accepted only if its local part is
\* dispatch or, in mode dispatch_and_handles, alphanumeric of length 2 to 32;
\* in mode dispatch_only every other local part is rejected, while dispatch
\* with a token is accepted in both modes.
C17_LocalPartRule ==
    pphase # "input" =>
        /\ prouting.ok =>
              \E pos \in TagPositions :
                  /\ HeaderOrder[pos[1]] = prouting.matched_header
                  /\ AddressAt(pos).tagged
                  /\ AddressAt(pos).token = prouting.load_ref
                  /\ LowerSeq(AddressAt(pos).local) = prouting.driver_handle
                  /\ AddressAt(pos).lead = ""
                  /\ \/ LowerSeq(AddressAt(pos).local) = DispatchLocal
                     \/ /\ mode = "dispatch_and_handles"
                        /\ LocalPartReMatches(AddressAt(pos).local)
        /\ (\E pos \in TagPositions :
               /\ AddressAt(pos).tagged
               /\ AddressAt(pos).local = DispatchLocal
               /\ AddressAt(pos).lead = ""
               /\ AddressAt(pos).tail = ""
               /\ LowerDomain(AddressAt(pos).domain) = EmailDomain) => prouting.ok

(***************************************************************************)
(* Further properties of the decision engine and the guardrails            *)
(* (SpecDecision)                                                          *)
(***************************************************************************)
\* C18 as stated: every price process_negotiation_logic returns with
\* SEND_COUNTER, in the accept zone as well as in the negotiate zone, is a
\* multiple of 50.
C18_CounterPriceMultipleOf50 ==
    (dphase \in {"decided", "guarded"} /\ dbase.action = "SEND_COUNTER") =>
        dbase.price % 5000 = 0

\* C18 amended: a negotiate-zone counter is a multiple of 50; an accept-zone
\* price is the detected price or the floor, whichever is larger, as it is,
\* and so a multiple of 50 exactly when that value is one.
C18_NegotiateZoneMultipleOf50 ==
    (dphase \in {"decided", "guarded"} /\ dbase.action = "SEND_COUNTER") =>
        /\ dbase.zone \in {"GREEN", "YELLOW"}
        /\ dbase.zone = "YELLOW" => dbase.price % 5000 = 0
        /\ dbase.zone = "GREEN" =>
              /\ dbase.price \in {dcase.price, CaseFloor}
              /\ (dbase.price % 5000 = 0) = (Max(dcase.price, CaseFloor) % 5000 = 0)

\* a counter of the negotiate zone computed from a floor that is no multiple
\* of 50
C18_Witness ==
    /\ dphase = "decided"
    /\ dbase.action = "SEND_COUNTER"
    /\ dbase.zone = "YELLOW"
    /\ CaseFloor % 5000 # 0
    /\ dbase.price % 5000 = 0
    /\ dbase.price > CaseFloor

\* C19 as stated: for every input decision (any action, template and price,
\* or none) _enforce_decision_guardrails returns an action in {SEND_COUNTER,
\* WALK_AWAY} and a template in {close_the_deal, standard_negotiation,
\* polite_decline}: an unknown action becomes SEND_COUNTER, WALK_AWAY returns
\* polite_decline with no price, FINALIZE returns SEND_COUNTER with
\* close_the_deal, an unknown template becomes standard_negotiation.
C19_GuardVocabulary ==
    dphase = "guarded" =>
        LET s == dcase.suggestion
            given == IF s.present /\ s.action # "" THEN UpperAction(s.action) ELSE "SEND_COUNTER"
        IN  /\ ~dguard.raised
            /\ dguard.action \in {"SEND_COUNTER", "WALK_AWAY"}
            /\ dguard.template \in {"close_the_deal", "standard_negotiation", "polite_decline"}
            /\ given \notin {"SEND_COUNTER", "WALK_AWAY", "FINALIZE"} =>
                  dguard.action = "SEND_COUNTER"
            /\ given = "WALK_AWAY" =>
                  (dguard.action = "WALK_AWAY" /\ dguard.template = "polite_decline"
                      /\ dguard.price = NoPrice)
            /\ given = "FINALIZE" =>
                  (dguard.action = "SEND_COUNTER" /\ dguard.template = "close_the_deal")
            /\ (given # "WALK_AWAY" /\ given # "FINALIZE" /\ s.present
                  /\ s.template \notin {"", "close_the_deal", "standard_negotiation",
                                        "polite_decline"}) =>
                  dguard.template = "standard_negotiation"

\* C20: _absolute_floor returns max(min_flat_rate, min_cpm x distance) when
\* that value is positive and the detected price times 1.10 otherwise, so the
\* floor is strictly positive for every driver configuration whenever there
\* is a detected price; with neither minimum in effect the offer is 1/1.10 of
\* the floor and falls in the negotiate zone.
C20_FloorFormula ==
    dphase \in {"decided", "guarded"} =>
        LET configured == Max(dcase.settings.min_flat_rate,
                              dcase.settings.min_cpm * dcase.distance_miles)
        IN  /\ configured > 0 => CaseFloor = configured
            /\ configured <= 0 => 100 * CaseFloor = 110 * dcase.price
            /\ CaseFloor > 0
            /\ configured <= 0 => dbase.zone = "YELLOW"

\* a decision taken for a driver with no flat minimum and a load without a
\* distance: the floor is the premium over the detected price
C20_Witness ==
    /\ dphase = "decided"
    /\ dcase.settings.min_flat_rate = 0
    /\ dcase.settings.min_cpm > 0
    /\ dcase.distance_miles = 0
    /\ dcase.price = 180000
    /\ CaseFloor = 198000
    /\ dbase.price = 215000

(***************************************************************************)
(* Further properties of the poller and the orchestrator (Spec)            *)
(***************************************************************************)
\* no layer of the cascade has anything to go on for msg: the id it carries
\* (if any) is no negotiation's, its tagged address (if any) names no driver
\* and load that share a negotiation, and its Subject names no load or a load
\* without an unsigned negotiation
Unroutable(msg) ==
    LET id == ExtractNegotiationIdFromMessage(msg, EmailDomain, mode)
        routing == ExtractRoutingFromMessage(msg, EmailDomain, mode)
        d == FindDriverByHandle(drivers, LowerSeq(routing.driver_handle))
        l == FindLoadByRef(routing.load_ref)
        s == FindLoadByRef(msg.subject.load_ref)
    IN  /\ ~(id.ok /\ id.negotiation_id \in NegIds)
        /\ ~(routing.ok /\ \E n \in NegIds :
                negotiations[n].driver_id = d /\ negotiations[n].load_id = l)
        /\ \A n \in NegIds :
              ~(negotiations[n].load_id = s /\ negotiations[n].status # "RATE_CON_SIGNED")

\* C21: when no layer of the identity cascade resolves a negotiation,
\* _route_and_store changes no negotiation, inserts no Message row, commits
\* and sends nothing, and returns normally: the poll loop goes on to mark the
\* message and take the next one.
C21_UnresolvedLeavesNoTrace ==
    [][(pc = "fetched" /\ pc' # "idle" /\ Unroutable(mailbox[cur])) =>
          /\ pc' = "mark"
          /\ negotiations' = negotiations
          /\ messages' = messages
          /\ commits' = commits
          /\ outbox' = outbox
          /\ queue' = queue]_vars

\* a message no layer resolves has been passed over with the tables as they
\* were at the start
C21_Witness ==
    /\ pc = "mark"
    /\ cur # 0
    /\ cur \in done
    /\ Unroutable(mailbox[cur])
    /\ sess.negotiation_id = 0
    /\ messages = <<>>
    /\ commits = 0

\* the text of the message in work names no price: every number the patterns
\* capture is outside [300, 20000] or is the number of the load reference
NoPriceInWork ==
    \A m \in mailbox[cur].body.mentions :
        \/ m.form = "bare"
        \/ MentionValue(m) < 300
        \/ MentionValue(m) > 20000
        \/ MentionValue(m) \in
              IgnoredValues(Loads[negotiations[sess.negotiation_id].load_id].ref_id)

\* C22: when no price is detected in the broker text, handle_broker_reply
\* returns WAITING_FOR_HUMAN and leaves the negotiation untouched: no field of
\* it changes, no Message row is added, nothing is committed or sent; the
\* Broker row stored before is the only effect of the message.
C22_NoPriceLeavesNegotiation ==
    [][(pc = "stored" /\ AutoNegotiates(sess.negotiation_id) /\ NoPriceInWork
          /\ pc' # "idle") =>
          /\ result' = "WAITING_FOR_HUMAN"
          /\ pc' = "mark"
          /\ negotiations' = negotiations
          /\ messages' = messages
          /\ messages[Len(messages)].sender = "Broker"
          /\ commits' = commits
          /\ outbox' = outbox
          /\ lastWrite' = lastWrite]_vars

\* the orchestrator has run on a text without a price and handed the case to
\* a human, the Broker row being the last row written
C22_Witness ==
    /\ pc = "mark"
    /\ cur # 0
    /\ runs[cur] = 1
    /\ sess.negotiation_id # 0
    /\ NoPriceInWork
    /\ result = "WAITING_FOR_HUMAN"
    /\ messages # <<>>
    /\ messages[Len(messages)].sender = "Broker"
    /\ outbox = <<>>

\* the price detected in the message in work is below 0.80 of the floor
WalkAwayDue ==
    LET neg == negotiations[sess.negotiation_id]
        price == ExtractPriceFromText(mailbox[cur].body,
                                      IgnoredValues(Loads[neg.load_id].ref_id))
    IN  /\ price # NoPrice
        /\ 100 * price < 80 * AbsoluteFloor(0, drivers[neg.driver_id], price)

\* C23: on a WALK_AWAY decision for a driver without notify_on_decline,
\* handle_broker_reply sends nothing, writes no draft and leaves the
\* negotiation as it is; it records the audit row of the decision and returns
\* WALK_AWAY.  With notify_on_decline the decline takes the path of any
\* reply: missing broker address, review queue, or send.
C23_SilentWalkAway ==
    [][(pc = "stored" /\ AutoNegotiates(sess.negotiation_id) /\ WalkAwayDue /\ pc' # "idle") =>
          LET neg == negotiations[sess.negotiation_id]
              driver == drivers[neg.driver_id]
          IN  IF ~driver.notify_on_decline
              THEN /\ result' = "WALK_AWAY"
                   /\ pc' = "mark"
                   /\ outbox' = outbox
                   /\ negotiations' = negotiations
                   /\ Len(messages') = Len(messages) + 1
                   /\ messages'[Len(messages')].sender = "SYSTEM"
                   /\ messages'[Len(messages')].action = "WALK_AWAY"
                   /\ messages'[Len(messages')].negotiation_id = sess.negotiation_id
                   /\ commits' = commits + 1
              ELSE IF neg.broker_mc_number \notin BrokerEmails
              THEN result' = "WAITING_FOR_HUMAN" /\ pc' = "mark"
              ELSE IF driver.review_before_send
              THEN /\ result' = "REVIEW_REQUIRED"
                   /\ negotiations'[sess.negotiation_id].pending_review_action = "WALK_AWAY"
              ELSE /\ pc' = "sending"
                   /\ sess'.decision.action = "WALK_AWAY"
                   /\ sess'.email_body # NoEmailBody]_vars

\* a walk-away has been logged for a driver without the opt-in and nothing
\* went out
C23_Witness ==
    /\ pc = "mark"
    /\ cur # 0
    /\ result = "WALK_AWAY"
    /\ ~drivers[negotiations[sess.negotiation_id].driver_id].notify_on_decline
    /\ WalkAwayDue
    /\ messages[Len(messages)].action = "WALK_AWAY"
    /\ outbox = <<>>
    /\ negotiations[sess.negotiation_id].current_offer = NoPrice
    /\ negotiations[sess.negotiation_id].pending_review_action = ""

(***************************************************************************)
(* Properties of the completion call (SpecDecision)                        *)
(***************************************************************************)
\* C24: a failure of the external completion (no client, an exception or a
\* timeout of the call, no content, content without a JSON object) is never
\* fatal: handle_broker_reply goes on with no payload, the decision is the one
\* of process_negotiation_logic and the email text is the template of that
\* decision, exactly as when no key is configured.
C24_AiFailureFallsBack ==
    (dphase = "composed" /\ dreply.outcome # "object") =>
        /\ dreply.outcome \in {"not_configured", "no_client", "call_raised", "no_content",
                               "not_json"}
        /\ ~dreply.payload.present
        /\ dreply.email = [source |-> "template", template |-> dbase.template,
                           price |-> dbase.price]
        /\ dbase = ProcessNegotiationLogic(dcase.distance_miles, dcase.price, dcase.settings)

\* the completion call raised for a case in which a counter is due, and the
\* reply is the template text at the counter price
C24_Witness ==
    /\ dphase = "composed"
    /\ dreply.outcome = "call_raised"
    /\ dcase.suggestion.present
    /\ dbase.action = "SEND_COUNTER"
    /\ dreply.email.source = "template"
    /\ dreply.email.price = dbase.price

(***************************************************************************)
(* Properties of the price extraction (SpecPrice)                          *)
(***************************************************************************)
\* C25: extract_price_from_text returns the largest recognised candidate that
\* lies in [300, 20000] and is not an ignored value, and nothing when none is
\* left; as handle_broker_reply calls it, the number made of the digits of
\* the load reference is never the price, also when it lies in the range.
C25_MaxOfValidCandidates ==
    dprice.phase = "priced" =>
        LET ref_digits == SelectSeq(dprice.load_ref, IsDigitChar)
            valid == {v \in {MentionValue(m) : m \in {x \in dprice.text.mentions :
                                                         x.form # "bare"}} :
                        /\ 300 <= v
                        /\ v <= 20000
                        /\ ~(Len(ref_digits) > 0 /\ v = StrToInt(ref_digits))}
        IN  /\ (valid = {}) = (dprice.detected = NoPrice)
            /\ valid # {} =>
                  /\ \E v \in valid : dprice.detected = 100 * v
                  /\ \A v \in valid : 100 * v <= dprice.detected
            /\ Len(ref_digits) > 0 => dprice.detected # 100 * StrToInt(ref_digits)

\* the text names 2.1k and a lower figure for the load 2100: the lower figure
\* is the price
C25_Witness ==
    /\ dprice.phase = "priced"
    /\ dprice.load_ref = <<"2", "1", "0", "0">>
    /\ [form |-> "k", n |-> 21] \in dprice.text.mentions
    /\ [form |-> "hundred", n |-> 18] \in dprice.text.mentions
    /\ dprice.detected = 190000

(***************************************************************************)
(* Properties of the listener loop (SpecListener)                          *)
(***************************************************************************)

\* C26: listen_for_replies never ends because of a failure.  Every exception
\* raised by connect, select, search, fetch or message processing leaves the
\* loop running; after a transport failure the connection is dropped, the
\* loop waits the reconnect interval and a new connection is opened before
\* the next fetch; only KeyboardInterrupt stops the loop, and the mailbox is
\* then logged out.
C26_ListenerSurvivesFailures ==
    /\ lsn.pc = "stopped" => (lsn.raised = "KeyboardInterrupt" /\ lsn.mail # "open")
    /\ lsn.raised \in {"transport", "other"} => lsn.pc \in {"backoff", "top", "loop"}
    /\ lsn.pc \in {"top", "loop"} => lsn.wait # "pending"
    /\ lsn.pc = "loop" => (lsn.mail = "open" /\ ~lsn.stale)
    /\ (lsn.raised = "transport" /\ lsn.pc = "backoff") => lsn.mail = "none"

\* a transport failure during a fetch was survived and the for loop runs
\* again over a new connection
C26_Witness ==
    /\ lsn.pc = "loop"
    /\ lsn.uids > 0
    /\ lsn.raised = "transport"
    /\ lsn.at = "fetch"
    /\ lsn.wait = "reconnect"
    /\ lsn.mail = "open"

(***************************************************************************)
(* Properties of the outbound subject (SpecSubject)                        *)
(***************************************************************************)

\* C27: outbound subjects round-trip.  For every subject and known
\* negotiation id n the Subject sent contains [GCD:n], appending twice equals
\* appending once, and the subject-token layer reads n back from the Subject
\* sent, also when the subject already held a token of another negotiation.
C27_SubjectRoundTrip ==
    (osub.phase = "sent" /\ osub.negotiation_id # 0) =>
        /\ \E i \in 1..Len(osub.sent) :
               /\ osub.sent[i].form = "token"
               /\ StrToInt(osub.sent[i].id) = osub.negotiation_id
        /\ osub.twice = osub.sent
        /\ osub.parsed = [ok |-> TRUE, negotiation_id |-> osub.negotiation_id,
                          layer |-> "subject_token"]

(***************************************************************************)
(* Properties of scout ingestion (SpecIngest)                              *)
(***************************************************************************)

\* C28: after any sequence of scout ingest requests, including two requests
\* for the same driver and load whose _get_or_create_negotiation calls
\* interleave, at most one active negotiation exists for each
\* (driver, load) pair.
C28_OneActiveNegotiationPerPair ==
    \A d \in {1, 2} :
        Cardinality({i \in DOMAIN ing.rows :
                        /\ ing.rows[i].driver_id = d
                        /\ ing.rows[i].load_id = 1
                        /\ ing.rows[i].status \in {"Sent", "Queued"}}) <= 1

(***************************************************************************)
(* Properties of the routing core on closed negotiations (Spec)            *)
(***************************************************************************)

\* C29: the routing core never reopens a dismissed or closed negotiation.
\* No step of _route_and_store or handle_broker_reply changes the status of
\* a negotiation that is Dismissed or CLOSED into a live status (MANUAL_REVIEW,
\* CLOSING_STANCE or any other value that is neither closed nor one of the
\* rate-confirmation statuses), on any routing layer, the ambiguity fan-out
\* included.
C29_ClosedNeverReopened ==
    [][\A n \in NegIds :
          negotiations[n].status \in {"Dismissed", "CLOSED"} =>
              negotiations'[n].status \in {"Dismissed", "CLOSED", "CLOSED_PENDING_EMAIL",
                                          "RATE_CON_RECEIVED", "RATE_CON_SIGNED"}]_vars

(***************************************************************************)
(* Properties of the audit rows (Spec)                                     *)
(***************************************************************************)

\* C30: every non-duplicate inbound broker message that resolves to a
\* negotiation produces exactly one Broker Message row, and every automated
\* decision taken by handle_broker_reply produces exactly one system Message
\* row, on every path (sent, queued for review, walk-away, send failure,
\* missing broker address).
C30_OneRowPerMessageAndDecision ==
    [][/\ (pc = "fetched" /\ pc' = "stored") =>
              /\ Len(messages') = Len(messages) + 1
              /\ messages'[Len(messages')].sender = "Broker"
       /\ (\/ (pc = "stored" /\ pc' = "mark" /\ runs'[cur] = runs[cur] + 1 /\ ~NoPriceInWork)
           \/ (pc \in {"sending", "sent"} /\ pc' = "mark")) =>
              /\ Len(messages') = Len(messages) + 1
              /\ messages'[Len(messages')].sender = "SYSTEM"]_vars

(***************************************************************************)
(* Properties of the fee ledger (SpecLedger)                               *)
(***************************************************************************)

\* C31: process_load_fees is idempotent per negotiation.  After any sequence
\* of calls with the same negotiation_id, fee_ledger holds exactly one row of
\* that negotiation and referral_earnings at most one; the first call returns
\* created = TRUE, every later call returns created = FALSE and writes
\* nothing.
C31_FeesIdempotent ==
    \A n \in {1, 2} :
        LET called == {i \in DOMAIN led.calls : led.calls[i].negotiation_id = n}
        IN  called # {} =>
              /\ Cardinality({i \in DOMAIN led.fee_ledger :
                                 led.fee_ledger[i].negotiation_id = n}) = 1
              /\ Cardinality({i \in DOMAIN led.referral_earnings :
                                 led.referral_earnings[i].negotiation_id = n}) <= 1
              /\ \A i \in called :
                    /\ led.calls[i].created = (\A j \in called : i <= j)
                    /\ led.calls[i].wrote = led.calls[i].created

\* negotiation 1 was settled three times for the referred driver: one fee
\* row, one referral row with the capped bounty
C31_Witness ==
    /\ Len(led.calls) = 3
    /\ \A i \in DOMAIN led.calls : led.calls[i].negotiation_id = 1
    /\ Len(led.fee_ledger) = 1
    /\ Len(led.referral_earnings) = 1
    /\ led.referral_earnings[1].amount = 500

(***************************************************************************)
(* Properties of the status transitions of handle_broker_reply (Spec)      *)
(***************************************************************************)

\* C32: the Decision Engine changes negotiation.status only into the closing
\* stance and only for an accept-zone offer (ratio >= 0.95).  In the negotiate
\* zone, the reject zone and on the no-price path a run of
\* handle_broker_reply leaves the status unchanged, and a status change made
\* for an accept-zone offer is persisted only together with the audit row of
\* that decision.
C32_StatusOnlyIntoClosingStance ==
    [][(pc \in {"stored", "sending", "sent"}) =>
         (\A n \in NegIds :
              negotiations'[n].status # negotiations[n].status =>
                  LET detected == ExtractPriceFromText(
                                      mailbox[cur].body,
                                      IgnoredValues(Loads[negotiations[n].load_id].ref_id))
                      floor == AbsoluteFloor(0, drivers[negotiations[n].driver_id], detected)
                  IN  /\ n = sess.negotiation_id
                      /\ negotiations'[n].status = "CLOSING_STANCE"
                      /\ detected # NoPrice
                      /\ floor > 0
                      /\ 100 * detected >= 95 * floor
                      /\ Len(messages') > Len(messages)
                      /\ messages'[Len(messages) + 1].sender = "SYSTEM"
                      /\ messages'[Len(messages) + 1].negotiation_id = n
                      /\ messages'[Len(messages) + 1].tag = "GREEN")]_vars

\* an accept-zone offer moved a negotiation into the closing stance and a
\* negotiate-zone decision for another message left a status as it was
C32_Witness ==
    /\ \E i \in 1..Len(messages) :
          /\ messages[i].tag = "GREEN"
          /\ negotiations[messages[i].negotiation_id].status = "CLOSING_STANCE"
    /\ \E i \in 1..Len(messages) :
          /\ messages[i].tag \in {"YELLOW", "RED"}
          /\ negotiations[messages[i].negotiation_id].status = "Sent"

(***************************************************************************)
(* Further properties of scout ingestion (SpecIngest)                      *)
(***************************************************************************)

\* C33: _get_or_create_negotiation overwrites the status of an existing
\* negotiation of the (driver, load) pair only when that negotiation is
\* Dismissed or Draft; an existing negotiation in any other status is
\* returned with its status unchanged, and in neither case is a second row
\* created.
C33_ReactivatesOnlyDismissedOrDraft ==
    [][\A r \in DOMAIN ing.reqs :
          (ing.reqs[r].pc = "queried" /\ ing'.reqs[r].pc = "done"
              /\ ing.reqs[r].existing.id # 0) =>
             (/\ Len(ing'.rows) = Len(ing.rows)
              /\ \A i \in DOMAIN ing.rows :
                    ing'.rows[i].status # ing.rows[i].status =>
                        ing.rows[i].status \in {"Dismissed", "Draft"})]_vars

(***************************************************************************)
(* Properties of the manual states under inbound processing (Spec)         *)
(***************************************************************************)

\* C34: once a negotiation has been flagged MANUAL_REVIEW by the ambiguity
\* path, no later inbound message causes an automated decision, a status
\* change or an outbound email for that negotiation until a human has
\* changed its status.
C34_ManualReviewStopsAutomation ==
    [][\A n \in NegIds :
          negotiations[n].status = "MANUAL_REVIEW" =>
             (/\ negotiations'[n].status = "MANUAL_REVIEW"
              /\ \A i \in (Len(outbox) + 1)..Len(outbox') : outbox'[i].negotiation_id # n
              /\ \A i \in (Len(messages) + 1)..Len(messages') :
                    ~(messages'[i].negotiation_id = n /\ messages'[i].sender = "SYSTEM"))]_vars

\* C35: once a driver's manual-mode request (status := Manual) has
\* committed, the negotiation's status stays Manual under inbound-email
\* processing for every interleaving with the poller, a poller run that had
\* already loaded the row included, and every inbound message whose
\* processing starts afterwards is logged without running
\* handle_broker_reply.
C35_ManualModeSticks ==
    man.manual => (man.status = "Manual" /\ man.late_runs = 0)

C37_BootstrapReplyReachesItsPair ==
    (pc \in {"resolved", "stored", "sending", "sent"} /\ sess.negotiation_id # 0) =>
        /\ negotiations[sess.negotiation_id].driver_id =
              FindDriverByHandle(drivers, mailbox[cur].hdrs["To"][1].local)
        /\ negotiations[sess.negotiation_id].load_id =
              FindLoadByRef(mailbox[cur].hdrs["To"][1].token)

\* C38: whenever a negotiation's pending-review fields are set, they hold
\* the draft composed for the most recent broker message on which
\* handle_broker_reply took a decision for that negotiation: a later decision
\* that produces no draft (walk-away without notification, direct send, send
\* failure, missing broker address) does not leave an older draft in place.
C38_DraftIsOfLatestDecision ==
    \A n \in NegIds :
        negotiations[n].pending_review_action # "" =>
            LET decided == {i \in 1..Len(messages) :
                               /\ messages[i].negotiation_id = n
                               /\ messages[i].sender = "SYSTEM"
                               /\ messages[i].tag \in {"GREEN", "YELLOW", "RED"}}
                latest == SetMax(decided)
            IN  /\ decided # {}
                /\ latest < Len(messages)
                /\ messages[latest + 1].negotiation_id = n
                /\ messages[latest + 1].tag = "draft_ready"
                /\ negotiations[n].pending_review_action = messages[latest].action
                /\ negotiations[n].pending_review_price = messages[latest].price

\* C39: a pending-review draft results in at most one outbound email: after
\* approve_draft_send succeeds the four pending-review fields are cleared and
\* a further approve returns no_pending_draft, and for every interleaving of
\* approve requests for the same negotiation only one of them sends.
C39_DraftSentAtMostOnce ==
    /\ Len(apr.outbox) <= 1
    /\ Cardinality({r \in DOMAIN apr.result : apr.result[r] = "ok"}) <= 1
    /\ (\E r \in DOMAIN apr.result : apr.result[r] = "ok") => apr.pending.action = ""

====
